---- MODULE Spec2Model ----
(***************************************************************************)
(* Verification model of the bizarrebeastsshowcase motion engine.          *)
(*                                                                         *)
(*   - the stateless timeline evaluator (calculateAnimation,               *)
(*     components/AnimationStudio/animationEngine.ts)                      *)
(*   - the stateful per-tick integrator and explicit frame sequencer of    *)
(*     MovementApp (unnamed/part_000, animate)                             *)
(*   - the explicit frame sequencers of GameAnimationsApp and              *)
(*     SpriteSequenceApp                                                   *)
(*   - the tick loops (play / pause / requestAnimationFrame) of the apps   *)
(*                                                                         *)
(* Numbers.  The program computes in IEEE doubles.  The model computes in  *)
(* fixed point: a quantity q of the program is held as the integer         *)
(* q * Milli (three decimals), times are integer milliseconds, and         *)
(* Math.sin is Bhaskara's rational approximation (exact at 0, pi/2, pi,    *)
(* always within [-1, 1], with the sign of the true sine).                 *)
(***************************************************************************)
EXTENDS Integers, Sequences, FiniteSets, TLC

\* fixed-point scale: 1.0 is held as Milli
Milli == 1000

Abs(n) == IF n < 0 THEN -n ELSE n

Min(a, b) == IF a <= b THEN a ELSE b

\* division rounding toward zero (fixed-point image of a double product)
Quot(a, b) == IF a >= 0 THEN a \div b ELSE -((-a) \div b)

\* Math.sin(f * pi) for f = p / Milli in [0, 1]:  16 f (1-f) / (5 - 4 f (1-f))
\* = 4 u / (5/4 - u) with u = f (1-f); integers stay below 2^31
SinHalfTurn(p) ==
  LET u == p * (Milli - p)
  IN  (4 * u * Milli) \div ((5 * Milli * Milli) \div 4 - u)

\* Math.sin(p / Milli * pi), any integer p, times Milli
SinPi(p) ==
  LET q == p % (2 * Milli)
  IN  IF q <= Milli THEN SinHalfTurn(q) ELSE -SinHalfTurn(q - Milli)

\* pi in milliradians
PiMilli == 3142

\* Math.sin(r / Milli) for r in milliradians, times Milli
SinRad(r) == SinPi((r * Milli) \div PiMilli)

(***************************************************************************)
(* Timeline evaluator: components/AnimationStudio/animationEngine.ts       *)
(***************************************************************************)

ActionTypes ==
  {"jump", "fall", "land", "idle", "flip", "spin", "bounce", "float",
   "attack", "dodge", "hit", "roll"}

EasingTypes == {"linear", "easeIn", "easeOut", "easeInOut", "bounce", "elastic"}

\* 2^(-10 t) for t = p / Milli in [0, 1], times Milli (halving per tenth,
\* linear inside a tenth)
Pow2Neg10(p) ==
  LET k == p \div 100
      r == p % 100
  IN  (Milli * (200 - r)) \div (200 * (2 ^ k))

\* mutant of Ease: the last segment of bounce is not re-centred (t is not
\* reduced by 2.625 / d1)
Ease_BounceNotRecentred(e, p) ==
  CASE e = "linear" -> p
    [] e = "easeIn" -> (p * p) \div Milli
    [] e = "easeOut" -> (p * (2 * Milli - p)) \div Milli
    [] e = "easeInOut" ->
         IF 2 * p < Milli
           THEN (2 * p * p) \div Milli
           ELSE -Milli + ((4 * Milli - 2 * p) * p) \div Milli
    [] e = "bounce" ->
         IF 11 * p < 4 * Milli
           THEN (121 * p * p) \div (16 * Milli)
           ELSE IF 11 * p < 8 * Milli
             THEN ((11 * p - 6 * Milli) * (11 * p - 6 * Milli) + 12 * Milli * Milli)
                    \div (16 * Milli)
             ELSE IF 11 * p < 10 * Milli
               THEN ((11 * p - 9 * Milli) * (11 * p - 9 * Milli) + 15 * Milli * Milli)
                      \div (16 * Milli)
               ELSE (121 * p * p + (63 * Milli * Milli) \div 4) \div (16 * Milli)
    [] e = "elastic" ->
         IF p = 0 \/ p = Milli
           THEN p
           ELSE Quot(Pow2Neg10(p) * SinPi(((p - 75) * 20) \div 3), Milli) + Milli

\* easingFunctions[e](t), t = p / Milli.  bounce: n1 = 7.5625 = 121/16 and
\* d1 = 2.75 = 11/4, so n1 * (t - k/d1)^2 = (11 t - 4 k)^2 / 16.
Ease(e, p) ==
  CASE e = "linear" -> p
    [] e = "easeIn" -> (p * p) \div Milli
    [] e = "easeOut" -> (p * (2 * Milli - p)) \div Milli
    [] e = "easeInOut" ->
         IF 2 * p < Milli
           THEN (2 * p * p) \div Milli
           ELSE -Milli + ((4 * Milli - 2 * p) * p) \div Milli
    [] e = "bounce" ->
         IF 11 * p < 4 * Milli
           THEN (121 * p * p) \div (16 * Milli)
           ELSE IF 11 * p < 8 * Milli
             THEN ((11 * p - 6 * Milli) * (11 * p - 6 * Milli) + 12 * Milli * Milli)
                    \div (16 * Milli)
             ELSE IF 11 * p < 10 * Milli
               THEN ((11 * p - 9 * Milli) * (11 * p - 9 * Milli) + 15 * Milli * Milli)
                      \div (16 * Milli)
               ELSE ((22 * p - 21 * Milli) * (22 * p - 21 * Milli) + 63 * Milli * Milli)
                      \div (64 * Milli)
    [] e = "elastic" ->
         IF p = 0 \/ p = Milli
           THEN p
           ELSE Quot(Pow2Neg10(p) * SinPi(((p - 75) * 20) \div 3), Milli) + Milli

\* the neutral pose calculateAnimation starts from (all numbers times Milli)
NeutralFrame ==
  [x |-> 0, y |-> 0, rotation |-> 0, scaleX |-> Milli, scaleY |-> Milli,
   opacity |-> Milli, color |-> "none", effects |-> << >>]

\* a || b of JavaScript on numbers: 0 (and an absent field, held as 0) is falsy
OrDefault(v, d) == IF v = 0 THEN d ELSE v

\* mutant of FindBlock: the end of a block's span is taken inclusive
RECURSIVE FindBlock_InclusiveEnd(_, _, _, _)
FindBlock_InclusiveEnd(blocks, t, i, acc) ==
  IF i > Len(blocks)
    THEN [index |-> 0, start |-> acc]
    ELSE IF t >= acc /\ t <= acc + blocks[i].duration
      THEN [index |-> i, start |-> acc]
      ELSE FindBlock_InclusiveEnd(blocks, t, i + 1, acc + blocks[i].duration)

\* mutant of FindBlock: the running sum is not advanced
RECURSIVE FindBlock_NoAccumulate(_, _, _, _)
FindBlock_NoAccumulate(blocks, t, i, acc) ==
  IF i > Len(blocks)
    THEN [index |-> 0, start |-> acc]
    ELSE IF t >= acc /\ t < acc + blocks[i].duration
      THEN [index |-> i, start |-> acc]
      ELSE FindBlock_NoAccumulate(blocks, t, i + 1, acc)

\* the loop "find current block and progress": the index of the first block
\* with acc <= t < acc + duration, or 0 when the loop runs off the end
RECURSIVE FindBlock(_, _, _, _)
FindBlock(blocks, t, i, acc) ==
  IF i > Len(blocks)
    THEN [index |-> 0, start |-> acc]
    ELSE IF t >= acc /\ t < acc + blocks[i].duration
      THEN [index |-> i, start |-> acc]
      ELSE FindBlock(blocks, t, i + 1, acc + blocks[i].duration)

\* blockProgress = (currentTime - accumulatedTime) / block.duration, times Milli
BlockProgress(blocks, t) ==
  LET f == FindBlock(blocks, t, 1, 0)
  IN  IF f.index = 0 THEN 0
      ELSE Quot((t - f.start) * Milli, blocks[f.index].duration)

\* the switch over block.type; p is easedProgress, rnd the three values
\* Math.random() returns (each times Milli, in [0, Milli))
BlockFrame(block, p, rnd) ==
  LET s == SinPi(p)
      f == NeutralFrame
  IN  CASE block.type = "jump" ->
             [f EXCEPT !.y = -(OrDefault(block.height, 100) * s),
                       !.x = block.distance * p]
        [] block.type = "fall" ->
             [f EXCEPT !.y = OrDefault(block.height, 100) * p,
                       !.rotation = block.rotation * p]
        [] block.type = "land" ->
             [f EXCEPT !.scaleX = Milli + Quot(200 * s, Milli),
                       !.scaleY = Milli - Quot(200 * s, Milli)]
        [] block.type = "flip" ->
             [f EXCEPT !.rotation = 360 * p,
                       !.y = -(OrDefault(block.height, 50) * s)]
        [] block.type = "spin" ->
             [f EXCEPT !.rotation = OrDefault(block.rotation, 360) * p]
        [] block.type = "bounce" ->
             LET bounceCount == OrDefault(block.bounceCount, 3)
                 prod == p * bounceCount
                 \* JavaScript %: the remainder has the sign of the dividend
                 bouncePhase == IF prod >= 0 THEN prod % Milli
                                ELSE -((-prod) % Milli)
             IN  [f EXCEPT !.y = -(OrDefault(block.height, 50) * Abs(SinPi(bouncePhase))),
                           !.x = OrDefault(block.distance, 100) * p]
        [] block.type = "float" ->
             [f EXCEPT !.y = -(OrDefault(block.height, 30) * Milli) + 10 * SinPi(4 * p),
                       !.x = block.distance * p,
                       !.opacity = 700 + Quot(300 * SinPi(2 * p), Milli)]
        [] block.type = "roll" ->
             [f EXCEPT !.rotation = 360 * p * OrDefault(block.speed, 1),
                       !.x = OrDefault(block.distance, 200) * p]
        [] block.type = "attack" ->
             [f EXCEPT !.x = OrDefault(block.distance, 50) * s,
                       !.scaleX = Milli + Quot(300 * s, Milli),
                       !.color = IF 2 * p > Milli THEN "#EF4444" ELSE "#4F46E5"]
        [] block.type = "dodge" ->
             LET dx == -(OrDefault(block.distance, 100) * s)
             IN  [f EXCEPT !.x = dx,
                           !.rotation = -(20 * s),
                           !.effects =
                             << [type |-> "trail", opacity |-> 300,
                                 positions |->
                                   [i \in 1..3 |->
                                      [x |-> Quot(dx * (Milli - i * 200), Milli),
                                       y |-> 0]]] >>]
        [] block.type = "hit" ->
             LET shakeIntensity == OrDefault(block.intensity, 10) * (Milli - p)
             IN  [f EXCEPT !.x = Quot((rnd[1] - 500) * shakeIntensity, Milli),
                           !.y = Quot((rnd[2] - 500) * shakeIntensity, Milli),
                           !.color = "#EF4444",
                           !.opacity = 700 + Quot(300 * rnd[3], Milli)]
        [] block.type = "idle" ->
             [f EXCEPT !.scaleY = Milli + Quot(20 * SinPi(2 * p), Milli),
                       !.y = 2 * SinPi(2 * p)]

\* "accumulate position from previous blocks": the loop over i < currentBlockIndex
RECURSIVE Drift(_, _)
Drift(blocks, k) ==
  IF k = 0 THEN 0
  ELSE Drift(blocks, k - 1) +
       (IF blocks[k].type \in {"jump", "bounce", "float", "roll"}
          THEN blocks[k].distance * Milli
          ELSE 0)

\* calculateAnimation(blocks, currentTime); rnd: what Math.random() returns
calculateAnimation(blocks, t, rnd) ==
  IF Len(blocks) = 0 THEN NeutralFrame
  ELSE LET f == FindBlock(blocks, t, 1, 0)
       IN  IF f.index = 0 THEN NeutralFrame
           ELSE LET block == blocks[f.index]
                    easedProgress ==
                      Ease(IF block.easing = "" THEN "linear" ELSE block.easing,
                           BlockProgress(blocks, t))
                    fr == BlockFrame(block, easedProgress, rnd)
                IN  [fr EXCEPT !.x = @ + Drift(blocks, f.index - 1)]

(***************************************************************************)
(* MovementApp (unnamed/part_000): the stateful integrator and the         *)
(* explicit frame sequencer.  Positions are held times Milli, rotations in *)
(* milliradians, the phases bouncePhase and floatPhase (seconds in the     *)
(* program) in milliseconds.                                               *)
(***************************************************************************)

MovementTypes ==
  {"none", "patrol", "bounce", "float", "jump", "flip", "stalker", "roll", "prowl"}

\* direction: patrolStartDirection === 'left' ? -1 : 1
StartDirection(layer) == IF layer.movement.patrolStartDirection = "left" THEN -1 ELSE 1

\* the flip rule of a turn: (faces right and moving left) or (faces left and
\* not moving left)
FlipFor(layer, direction) ==
  LET movingLeft == direction = -1
  IN  \/ (layer.spriteFacingDirection = "right" /\ movingLeft)
      \/ (layer.spriteFacingDirection = "left" /\ ~movingLeft)

\* the AnimationState createNewCharacter and loadCharacterFromCatalog make
InitialAnimationState(layer) ==
  [currentFrameIndex |-> 0,
   frameStartTime |-> 0,
   currentX |-> layer.x * Milli,
   currentY |-> layer.y * Milli,
   baseY |-> layer.y * Milli,
   direction |-> StartDirection(layer),
   flipped |->
     \/ (layer.spriteFacingDirection = "right"
           /\ layer.movement.patrolStartDirection = "left")
     \/ (layer.spriteFacingDirection = "left"
           /\ layer.movement.patrolStartDirection = "right"),
   rotation |-> 0,
   bouncePhase |-> 0,
   jumpTimer |-> 0,
   stalkerState |-> "hidden",
   stalkerTimer |-> 0,
   floatPhase |-> 0]

\* the sprite the active index names, as a set: empty when the index is past
\* the sequence or names no sprite of the layer (find returns undefined)
CurrentFrame(layer, state) ==
  LET frames == layer.sequence.frames
      i == state.currentFrameIndex
  IN  IF i >= 0 /\ i < Len(frames) /\ frames[i + 1] \in DOMAIN layer.sprites
        THEN {frames[i + 1]}
        ELSE {}

\* mutant of UpdateFrame: the end of the sequence always wraps
UpdateFrame_AlwaysWrap(layer, state, currentTime) ==
  LET frames == layer.sequence.frames
      cur == CurrentFrame(layer, state)
  IN  IF cur # {}
         /\ \A f \in cur : currentTime - state.frameStartTime >= layer.sprites[f].duration
        THEN [state EXCEPT !.currentFrameIndex = (state.currentFrameIndex + 1) % Len(frames),
                           !.frameStartTime = currentTime]
        ELSE state

\* mutant of UpdateFrame: the index moves on by as many frames as the elapsed
\* time holds durations of the active frame
UpdateFrame_ByElapsed(layer, state, currentTime) ==
  LET frames == layer.sequence.frames
      cur == CurrentFrame(layer, state)
  IN  IF cur # {}
         /\ \A f \in cur : currentTime - state.frameStartTime >= layer.sprites[f].duration
        THEN LET f == CHOOSE g \in cur : TRUE
                 next == state.currentFrameIndex
                           + (currentTime - state.frameStartTime) \div layer.sprites[f].duration
                 nextIndex == IF next >= Len(frames)
                                THEN (IF layer.sequence.loop THEN next % Len(frames)
                                      ELSE Len(frames) - 1)
                                ELSE next
             IN  [state EXCEPT !.currentFrameIndex = nextIndex,
                               !.frameStartTime = currentTime]
        ELSE state

\* "update sprite frame"
UpdateFrame(layer, state, currentTime) ==
  LET frames == layer.sequence.frames
      cur == CurrentFrame(layer, state)
  IN  IF cur # {}
         /\ \A f \in cur : currentTime - state.frameStartTime >= layer.sprites[f].duration
        THEN LET next == state.currentFrameIndex + 1
                 nextIndex == IF next >= Len(frames)
                                THEN (IF layer.sequence.loop THEN 0 ELSE Len(frames) - 1)
                                ELSE next
             IN  [state EXCEPT !.currentFrameIndex = nextIndex,
                               !.frameStartTime = currentTime]
        ELSE state

LeftBound(layer) == layer.x * Milli - (layer.movement.patrolWidth * Milli) \div 2

RightBound(layer) == layer.x * Milli + (layer.movement.patrolWidth * Milli) \div 2

\* mutant of StepPatrol: the turn reverses the direction but does not clamp
StepPatrol_NoClamp(layer, state, deltaTime) ==
  LET x == state.currentX + layer.movement.speed * deltaTime * state.direction
  IN  IF x <= LeftBound(layer) \/ x >= RightBound(layer)
        THEN [state EXCEPT !.currentX = x, !.direction = -state.direction]
        ELSE [state EXCEPT !.currentX = x]

\* mutant of StepPatrol: a falsy patrolWidth switches the bounds off
StepPatrol_FalsyWidthUnbounded(layer, state, deltaTime) ==
  LET x == state.currentX + layer.movement.speed * deltaTime * state.direction
      leftBound == LeftBound(layer)
      rightBound == RightBound(layer)
  IN  IF layer.movement.patrolWidth # 0 /\ (x <= leftBound \/ x >= rightBound)
        THEN [state EXCEPT
                !.direction = -state.direction,
                !.flipped = IF layer.movement.flipOnTurn
                              THEN FlipFor(layer, -state.direction)
                              ELSE state.flipped,
                !.currentX = IF x <= leftBound THEN leftBound ELSE rightBound]
        ELSE [state EXCEPT !.currentX = x]

\* case 'patrol'
StepPatrol(layer, state, deltaTime) ==
  LET x == state.currentX + layer.movement.speed * deltaTime * state.direction
      leftBound == LeftBound(layer)
      rightBound == RightBound(layer)
  IN  IF x <= leftBound \/ x >= rightBound
        THEN [state EXCEPT
                !.direction = -state.direction,
                !.flipped = IF layer.movement.flipOnTurn
                              THEN FlipFor(layer, -state.direction)
                              ELSE state.flipped,
                !.currentX = IF x <= leftBound THEN leftBound ELSE rightBound]
        ELSE [state EXCEPT !.currentX = x]

\* case 'bounce'
StepBounce(layer, state, deltaTime) ==
  LET bouncePhase == state.bouncePhase + deltaTime
      bounceY == Abs(SinRad(bouncePhase * layer.movement.frequency))
                   * layer.movement.bounceHeight
      x == state.currentX + layer.movement.speed * deltaTime * state.direction
      bounceBoundLeft == LeftBound(layer)
      bounceBoundRight == RightBound(layer)
      turn == x <= bounceBoundLeft \/ x >= bounceBoundRight
      direction == IF turn THEN -state.direction ELSE state.direction
  IN  [state EXCEPT
         !.bouncePhase = bouncePhase,
         !.currentY = state.baseY - bounceY,
         !.direction = direction,
         !.flipped = IF turn /\ layer.movement.flipOnTurn
                       THEN FlipFor(layer, direction)
                       ELSE state.flipped,
         !.currentX = IF turn
                        THEN (IF x <= bounceBoundLeft THEN bounceBoundLeft
                              ELSE bounceBoundRight)
                        ELSE x,
         !.rotation = IF bounceY > 10 * Milli
                        THEN state.rotation + deltaTime * 3 * direction
                        ELSE Quot(state.rotation * 9, 10)]

\* case 'float'
StepFloat(layer, state, deltaTime) ==
  LET floatPhase == state.floatPhase + deltaTime
      floatY == SinRad(floatPhase * 2) * layer.movement.floatAmount
  IN  [state EXCEPT !.floatPhase = floatPhase, !.currentY = state.baseY + floatY]

\* mutant of StepJump: the airborne arc spans the whole cycle
StepJump_WholeCycle(layer, state, deltaTime) ==
  LET interval == layer.movement.jumpInterval
      t0 == state.jumpTimer + deltaTime
      jumpTimer == IF t0 >= interval THEN 0 ELSE t0
  IN  IF interval > 0
        THEN [state EXCEPT
                !.jumpTimer = jumpTimer,
                !.currentY = state.baseY
                   - SinPi(Quot(2 * jumpTimer * Milli, interval))
                       * layer.movement.bounceHeight]
        ELSE [state EXCEPT !.jumpTimer = jumpTimer, !.currentY = state.baseY]

\* mutant of StepJump: an interval that is not positive is given the default
\* interval of 2000 ms
StepJump_DefaultInterval(layer, state, deltaTime) ==
  LET interval == IF layer.movement.jumpInterval > 0 THEN layer.movement.jumpInterval
                                                     ELSE 2000
      t0 == state.jumpTimer + deltaTime
      jumpTimer == IF t0 >= interval THEN 0 ELSE t0
  IN  IF 2 * jumpTimer < interval
        THEN [state EXCEPT
                !.jumpTimer = jumpTimer,
                !.currentY = state.baseY
                   - SinPi(Quot(2 * jumpTimer * Milli, interval))
                       * layer.movement.bounceHeight]
        ELSE [state EXCEPT !.jumpTimer = jumpTimer, !.currentY = state.baseY]

\* case 'jump'.  jumpProgress = jumpTimer / jumpInterval: with an interval of
\* 0 it is 0/0 = NaN and NaN < 0.5 is false; with a negative interval it is
\* -0 and the jump height is -0.
StepJump(layer, state, deltaTime) ==
  LET interval == layer.movement.jumpInterval
      t0 == state.jumpTimer + deltaTime
      jumpTimer == IF t0 >= interval THEN 0 ELSE t0
      \* jumpProgress < 0.5
      belowHalf == CASE interval > 0 -> 2 * jumpTimer < interval
                     [] interval < 0 -> 2 * jumpTimer > interval
                     [] OTHER -> FALSE
  IN  IF belowHalf
        THEN [state EXCEPT
                !.jumpTimer = jumpTimer,
                !.currentY = state.baseY
                   - SinPi(Quot(2 * jumpTimer * Milli, interval))
                       * layer.movement.bounceHeight]
        ELSE [state EXCEPT !.jumpTimer = jumpTimer, !.currentY = state.baseY]

\* case 'flip'
StepFlip(layer, state, currentTime, deltaTime) ==
  [state EXCEPT
     !.rotation = state.rotation + deltaTime * 5,
     !.currentX = layer.x * Milli
        + Quot(SinRad(Quot(currentTime * layer.movement.speed, 50))
                 * layer.movement.patrolWidth, 2),
     !.currentY = state.baseY
        + SinRad(Quot(currentTime * layer.movement.speed * 2, 25))
            * layer.movement.amplitude]

\* mutant of StepStalker: the chase window is 2000 ms
StepStalker_LongChase(layer, state, deltaTime) ==
  LET timer == state.stalkerTimer + deltaTime
  IN  CASE state.stalkerState = "hidden" ->
             IF timer >= layer.movement.stalkerHideTime
               THEN [state EXCEPT !.stalkerState = "chasing", !.stalkerTimer = 0]
               ELSE [state EXCEPT !.stalkerTimer = timer]
        [] state.stalkerState = "chasing" ->
             LET x == state.currentX
                        + layer.movement.stalkerChaseSpeed * deltaTime * state.direction
             IN  IF timer >= 2000
                   THEN [state EXCEPT !.currentX = x, !.stalkerState = "retreating",
                                      !.stalkerTimer = 0, !.direction = -state.direction]
                   ELSE [state EXCEPT !.currentX = x, !.stalkerTimer = timer]
        [] OTHER -> [state EXCEPT !.stalkerTimer = timer]

\* mutant of StepStalker: the return to Hidden leaves x where the retreat ended
StepStalker_NoSnap(layer, state, deltaTime) ==
  LET timer == state.stalkerTimer + deltaTime
  IN  CASE state.stalkerState = "hidden" ->
             IF timer >= layer.movement.stalkerHideTime
               THEN [state EXCEPT !.stalkerState = "chasing", !.stalkerTimer = 0]
               ELSE [state EXCEPT !.stalkerTimer = timer]
        [] state.stalkerState = "chasing" ->
             LET x == state.currentX
                        + layer.movement.stalkerChaseSpeed * deltaTime * state.direction
             IN  IF timer >= 1000
                   THEN [state EXCEPT !.currentX = x, !.stalkerState = "retreating",
                                      !.stalkerTimer = 0, !.direction = -state.direction]
                   ELSE [state EXCEPT !.currentX = x, !.stalkerTimer = timer]
        [] state.stalkerState = "retreating" ->
             LET targetX == layer.x * Milli
             IN  IF Abs(state.currentX - targetX) > 5 * Milli
                   THEN LET dir == IF targetX > state.currentX THEN 1 ELSE -1
                        IN  [state EXCEPT
                               !.stalkerTimer = timer,
                               !.currentX = state.currentX
                                  + layer.movement.speed * deltaTime * dir]
                   ELSE [state EXCEPT !.stalkerState = "hidden", !.stalkerTimer = 0]

\* case 'stalker'
StepStalker(layer, state, deltaTime) ==
  LET timer == state.stalkerTimer + deltaTime
  IN  CASE state.stalkerState = "hidden" ->
             IF timer >= layer.movement.stalkerHideTime
               THEN [state EXCEPT !.stalkerState = "chasing", !.stalkerTimer = 0]
               ELSE [state EXCEPT !.stalkerTimer = timer]
        [] state.stalkerState = "chasing" ->
             LET x == state.currentX
                        + layer.movement.stalkerChaseSpeed * deltaTime * state.direction
             IN  IF timer >= 1000
                   THEN [state EXCEPT !.currentX = x, !.stalkerState = "retreating",
                                      !.stalkerTimer = 0, !.direction = -state.direction]
                   ELSE [state EXCEPT !.currentX = x, !.stalkerTimer = timer]
        [] state.stalkerState = "retreating" ->
             LET targetX == layer.x * Milli
             IN  IF Abs(state.currentX - targetX) > 5 * Milli
                   THEN LET dir == IF targetX > state.currentX THEN 1 ELSE -1
                        IN  [state EXCEPT
                               !.stalkerTimer = timer,
                               !.currentX = state.currentX
                                  + layer.movement.speed * deltaTime * dir]
                   ELSE [state EXCEPT !.stalkerState = "hidden", !.stalkerTimer = 0,
                                      !.currentX = targetX]

\* case 'roll'
StepRoll(layer, state, deltaTime) ==
  LET x == state.currentX + layer.movement.speed * deltaTime * state.direction
      rotation == state.rotation + deltaTime * 8 * state.direction
      rollBoundLeft == LeftBound(layer)
      rollBoundRight == RightBound(layer)
  IN  IF x <= rollBoundLeft \/ x >= rollBoundRight
        THEN [state EXCEPT
                !.rotation = rotation,
                !.direction = -state.direction,
                !.currentX = IF x <= rollBoundLeft THEN rollBoundLeft ELSE rollBoundRight]
        ELSE [state EXCEPT !.rotation = rotation, !.currentX = x]

\* case 'prowl'.  prevX carries layer.x and prowlX does not (part_000:457-458)
StepProwl(layer, state, currentTime) ==
  LET prowlX == Quot(SinRad(Quot(currentTime * layer.movement.speed, 100))
                       * layer.movement.patrolWidth, 2)
      prevX == layer.x * Milli
                 + Quot(SinRad(Quot((currentTime - 100) * layer.movement.speed, 100))
                          * layer.movement.patrolWidth, 2)
      movingLeft == prowlX < prevX
  IN  [state EXCEPT
         !.currentX = layer.x * Milli + prowlX,
         !.currentY = state.baseY + SinRad(currentTime * 4) * 5,
         !.flipped = \/ (layer.spriteFacingDirection = "right" /\ movingLeft)
                     \/ (layer.spriteFacingDirection = "left" /\ ~movingLeft)]

\* the switch over layer.movement.type
StepMovement(layer, state, currentTime, deltaTime) ==
  CASE layer.movement.type = "patrol" -> StepPatrol(layer, state, deltaTime)
    [] layer.movement.type = "bounce" -> StepBounce(layer, state, deltaTime)
    [] layer.movement.type = "float" -> StepFloat(layer, state, deltaTime)
    [] layer.movement.type = "jump" -> StepJump(layer, state, deltaTime)
    [] layer.movement.type = "flip" -> StepFlip(layer, state, currentTime, deltaTime)
    [] layer.movement.type = "stalker" -> StepStalker(layer, state, deltaTime)
    [] layer.movement.type = "roll" -> StepRoll(layer, state, deltaTime)
    [] layer.movement.type = "prowl" -> StepProwl(layer, state, currentTime)
    [] OTHER -> state

\* mutant of Stepped: a layer with behavior 'none' is still sequenced
Stepped_NoneStillSequenced(layer) ==
  /\ layer.visible
  /\ Len(layer.sequence.frames) # 0

\* the tick steps this layer: it is visible, its behavior is not 'none' and
\* its sequence has frames (the early returns of the forEach body)
Stepped(layer) ==
  /\ layer.visible
  /\ layer.movement.type # "none"
  /\ Len(layer.sequence.frames) # 0

\* the body of layers.forEach in animate, for one layer
AnimateLayer(layer, state, currentTime, deltaTime) ==
  IF ~Stepped(layer)
    THEN state
    ELSE StepMovement(layer, UpdateFrame(layer, state, currentTime),
                      currentTime, deltaTime)

----
(***************************************************************************)
(* GameAnimationsApp (ImageUploader.tsx): presets, the custom sequence,    *)
(* the patrol at 60 px/s, the preset's jump, roll and blink.  An optional  *)
(* value (gameAnimation, blinkPattern) is a set with at most one element.  *)
(* rotationSpeed is in milliradians per millisecond.                       *)
(***************************************************************************)

\* GAME_ANIMATION_PRESETS; frameOrder holds 0-based sprite indices
GAME_ANIMATION_PRESETS ==
  [rex |->
     [name |-> "Rex Bounce", enemyType |-> "rex",
      spriteSequence |-> [frameOrder |-> <<0, 1>>, frameDurations |-> <<2000, 150>>],
      movement |-> [horizontalPatrolWidth |-> 200, verticalJumpHeight |-> 100,
                    bounceInterval |-> 2000, rotationDuringJump |-> TRUE,
                    rotationSpeed |-> 8,
                    blinkPattern |-> {[interval |-> 2000, duration |-> 150,
                                       frameIndex |-> 1]}]],
   cat |->
     [name |-> "Cat Stalker", enemyType |-> "cat",
      spriteSequence |-> [frameOrder |-> <<0>>, frameDurations |-> <<100>>],
      movement |-> [horizontalPatrolWidth |-> 300, verticalJumpHeight |-> 0,
                    bounceInterval |-> 3000, rotationDuringJump |-> FALSE,
                    rotationSpeed |-> 0, blinkPattern |-> {}]],
   baseblu |->
     [name |-> "BaseBlu Patrol", enemyType |-> "baseblu",
      spriteSequence |-> [frameOrder |-> <<0, 1, 0, 1>>,
                          frameDurations |-> <<500, 100, 500, 100>>],
      movement |-> [horizontalPatrolWidth |-> 200, verticalJumpHeight |-> 0,
                    bounceInterval |-> 0, rotationDuringJump |-> FALSE,
                    rotationSpeed |-> 0, blinkPattern |-> {}]],
   beetle |->
     [name |-> "Beetle Roll", enemyType |-> "beetle",
      spriteSequence |-> [frameOrder |-> <<0>>, frameDurations |-> <<100>>],
      movement |-> [horizontalPatrolWidth |-> 250, verticalJumpHeight |-> 0,
                    bounceInterval |-> 0, rotationDuringJump |-> FALSE,
                    rotationSpeed |-> 10, blinkPattern |-> {}]]]

\* createNewCharacter (GameAnimationsApp): the layer
GaNewCharacterLayer ==
  [x |-> 500, y |-> 500, visible |-> TRUE, spriteFacingDirection |-> "right",
   sprites |-> << >>,
   sequence |-> [frames |-> << >>, loop |-> TRUE],
   gameAnimation |-> {},
   customPatrolWidth |-> 200,
   customJumpHeight |-> 100]

\* createNewCharacter (GameAnimationsApp): the animation state
GaInitialAnimationState(layer) ==
  [currentFrameIndex |-> 0,
   frameStartTime |-> 0,
   currentX |-> layer.x * Milli,
   currentY |-> layer.y * Milli,
   baseY |-> layer.y * Milli,
   direction |-> 1,
   flipped |-> layer.spriteFacingDirection = "left",
   rotation |-> 0,
   bounceTimer |-> 0,
   blinkTimer |-> 0,
   isJumping |-> FALSE,
   sequenceIndex |-> 0]

\* applyGameAnimation: the layer takes the preset, its frames and its widths
GaApplyLayer(layer, preset) ==
  LET order == preset.spriteSequence.frameOrder
      durs == preset.spriteSequence.frameDurations
      has(k) == order[k] + 1 \in DOMAIN layer.sprites
      RECURSIVE newFrames(_)
      newFrames(k) ==
        IF k > Len(order) THEN << >>
        ELSE (IF has(k) THEN <<order[k] + 1>> ELSE << >>) \o newFrames(k + 1)
      \* frameOrder.indexOf(index), 1-based; 0 when absent
      indexOf(index) ==
        IF \E k \in 1..Len(order) : order[k] = index
          THEN CHOOSE k \in 1..Len(order) :
                 order[k] = index /\ \A j \in 1..(k - 1) : order[j] # index
          ELSE 0
  IN  [layer EXCEPT
         !.sprites = [i \in DOMAIN layer.sprites |->
                        IF indexOf(i - 1) # 0 /\ durs[indexOf(i - 1)] # 0
                          THEN [layer.sprites[i] EXCEPT !.duration = durs[indexOf(i - 1)]]
                          ELSE layer.sprites[i]],
         !.sequence.frames = newFrames(1),
         !.gameAnimation = {preset},
         !.customPatrolWidth = preset.movement.horizontalPatrolWidth,
         !.customJumpHeight = preset.movement.verticalJumpHeight]

\* applyGameAnimation: the reset of the animation state
GaApplyState(state) ==
  [state EXCEPT !.currentFrameIndex = 0, !.sequenceIndex = 0, !.bounceTimer = 0,
                !.blinkTimer = 0, !.rotation = 0, !.isJumping = FALSE]

\* the flip of a turn: (faces right and not moving right) or (faces left and
\* moving right)
GaFlipFor(layer, direction) ==
  LET movingRight == direction = 1
  IN  \/ (layer.spriteFacingDirection = "right" /\ ~movingRight)
      \/ (layer.spriteFacingDirection = "left" /\ movingRight)

\* mutant of GaUpdatePresetSequence: the index stops at the end of frameOrder
GaUpdatePresetSequence_Clamp(preset, state, currentTime) ==
  LET order == preset.spriteSequence.frameOrder
      durs == preset.spriteSequence.frameDurations
      currentDuration ==
        OrDefault(IF state.sequenceIndex + 1 \in DOMAIN durs
                    THEN durs[state.sequenceIndex + 1] ELSE 0, 100)
  IN  IF Len(order) > 0 /\ currentTime - state.frameStartTime >= currentDuration
        THEN LET si == Min(state.sequenceIndex + 1, Len(order) - 1)
             IN  [state EXCEPT !.sequenceIndex = si,
                               !.currentFrameIndex = order[si + 1],
                               !.frameStartTime = currentTime]
        ELSE state

\* the preset sequence: always wraps, modulo the length of frameOrder
GaUpdatePresetSequence(preset, state, currentTime) ==
  LET order == preset.spriteSequence.frameOrder
      durs == preset.spriteSequence.frameDurations
      currentDuration ==
        OrDefault(IF state.sequenceIndex + 1 \in DOMAIN durs
                    THEN durs[state.sequenceIndex + 1] ELSE 0, 100)
  IN  IF Len(order) > 0 /\ currentTime - state.frameStartTime >= currentDuration
        THEN LET si == (state.sequenceIndex + 1) % Len(order)
             IN  [state EXCEPT !.sequenceIndex = si,
                               !.currentFrameIndex = order[si + 1],
                               !.frameStartTime = currentTime]
        ELSE state

\* the custom sequence of a layer without preset; Len(frames) > 0
GaUpdateCustomSequence(layer, state, currentTime) ==
  LET frames == layer.sequence.frames
      id == frames[(state.currentFrameIndex % Len(frames)) + 1]
  IN  IF id \in DOMAIN layer.sprites
         /\ currentTime - state.frameStartTime >= layer.sprites[id].duration
        THEN LET next == state.currentFrameIndex + 1
                 nextIndex == IF next >= Len(frames)
                                THEN (IF layer.sequence.loop THEN 0 ELSE Len(frames) - 1)
                                ELSE next
             IN  [state EXCEPT !.currentFrameIndex = nextIndex,
                               !.frameStartTime = currentTime]
        ELSE state

\* "handle sprite sequence based on preset or custom"
GaUpdateSequence(layer, state, currentTime) ==
  IF layer.gameAnimation # {}
    THEN GaUpdatePresetSequence(CHOOSE p \in layer.gameAnimation : TRUE,
                                state, currentTime)
    ELSE IF Len(layer.sequence.frames) > 0
           THEN GaUpdateCustomSequence(layer, state, currentTime)
           ELSE state

\* "horizontal patrol (works with or without preset)", 60 px/s
GaStepPatrol(layer, state, deltaTime) ==
  IF layer.customPatrolWidth > 0
    THEN LET newX == state.currentX + 60 * deltaTime * state.direction
             leftBound == layer.x * Milli - (layer.customPatrolWidth * Milli) \div 2
             rightBound == layer.x * Milli + (layer.customPatrolWidth * Milli) \div 2
         IN  IF newX <= leftBound \/ newX >= rightBound
               THEN [state EXCEPT !.direction = -state.direction,
                                  !.flipped = GaFlipFor(layer, -state.direction),
                                  !.currentX = IF newX <= leftBound THEN leftBound
                                                                    ELSE rightBound]
               ELSE [state EXCEPT !.currentX = newX]
    ELSE state

\* 2 pi, milliradians
TwoPiMilli == 2 * PiMilli

\* Math.round(rotation / (2 pi)) * 2 pi
RoundToTurn(rotation) == ((2 * rotation + TwoPiMilli) \div (2 * TwoPiMilli)) * TwoPiMilli

\* "handle bouncing/jumping for Rex-style animation"; bounceInterval > 0
GaStepBounce(layer, preset, state, deltaTime) ==
  LET timer1 == state.bounceTimer + deltaTime
      starts == timer1 >= preset.movement.bounceInterval /\ ~state.isJumping
      timer == IF starts THEN 0 ELSE timer1
      jumping == starts \/ state.isJumping
      \* t = min(jumpProgress * 2, 1), times Milli
      t == Min(2 * timer, Milli)
      u == 2 * t - Milli
      arc == layer.customJumpHeight * (Milli - (u * u) \div Milli)
      spun == IF preset.movement.rotationDuringJump
                THEN state.rotation + preset.movement.rotationSpeed * deltaTime * state.direction
                ELSE state.rotation
      ends == timer >= 500
  IN  IF ~jumping
        THEN [state EXCEPT !.bounceTimer = timer]
        ELSE [state EXCEPT
                !.bounceTimer = timer,
                !.isJumping = ~ends,
                !.currentY = IF ends THEN state.baseY ELSE state.baseY - arc,
                !.rotation = IF ends /\ preset.movement.rotationDuringJump
                               THEN RoundToTurn(spun) ELSE spun]

\* "continuous rotation (Beetle-style)"
GaStepRoll(preset, state, deltaTime) ==
  IF preset.enemyType = "beetle" /\ preset.movement.rotationSpeed > 0
    THEN [state EXCEPT !.rotation = state.rotation
                          + preset.movement.rotationSpeed * deltaTime * state.direction]
    ELSE state

\* mutant of GaStepBlink: the overlay only counts, the base sequence's frame stays
GaStepBlink_CountOnly(preset, state, deltaTime) ==
  IF preset.movement.blinkPattern = {}
    THEN state
    ELSE [state EXCEPT !.blinkTimer = state.blinkTimer + deltaTime]

\* "handle blinking pattern (if specified)"
GaStepBlink(preset, state, deltaTime) ==
  IF preset.movement.blinkPattern = {}
    THEN state
    ELSE LET blink == CHOOSE b \in preset.movement.blinkPattern : TRUE
             timer == state.blinkTimer + deltaTime
             cycleTime == timer % (blink.interval + blink.duration)
         IN  [state EXCEPT
                !.blinkTimer = timer,
                !.currentFrameIndex =
                  IF cycleTime < blink.interval
                    THEN (IF state.currentFrameIndex = blink.frameIndex THEN 0
                          ELSE state.currentFrameIndex)
                    ELSE blink.frameIndex]

\* the preset's movement: jump, roll and blink
GaStepPreset(layer, state, deltaTime) ==
  IF layer.gameAnimation = {}
    THEN state
    ELSE LET preset == CHOOSE p \in layer.gameAnimation : TRUE
             bounced == IF preset.movement.bounceInterval > 0
                          THEN GaStepBounce(layer, preset, state, deltaTime)
                          ELSE state
         IN  GaStepBlink(preset, GaStepRoll(preset, bounced, deltaTime), deltaTime)

\* the body of layers.forEach in GameAnimationsApp.animate, for one layer
GaAnimateLayer(layer, state, currentTime, deltaTime) ==
  IF ~layer.visible
    THEN state
    ELSE GaStepPreset(layer,
                      GaStepPatrol(layer, GaUpdateSequence(layer, state, currentTime),
                                   deltaTime),
                      deltaTime)

\* drawCanvas: the sprite drawn for the layer, as a set; empty when the layer
\* is skipped or frameId stays undefined.  A sprite's id is its place in
\* layer.sprites, from 1.
GaResolveFrame(layer, state) ==
  IF ~layer.visible \/ Len(layer.sprites) = 0
    THEN {}
    ELSE IF layer.gameAnimation # {}
           THEN (IF state.currentFrameIndex + 1 \in DOMAIN layer.sprites
                   THEN {state.currentFrameIndex + 1}
                   ELSE {})
           ELSE IF Len(layer.sequence.frames) > 0
                  THEN {layer.sequence.frames[
                          (state.currentFrameIndex % Len(layer.sequence.frames)) + 1]}
                  ELSE {1}

\* exportCanvas: the sprite drawn for the layer in the exported image, as a
\* set; the preset branch is taken only when layer.sequence.frames is not empty
GaExportFrame(layer, state) ==
  IF ~layer.visible \/ Len(layer.sprites) = 0
    THEN {}
    ELSE IF layer.gameAnimation # {} /\ Len(layer.sequence.frames) > 0
           THEN (IF state.currentFrameIndex + 1 \in DOMAIN layer.sprites
                   THEN {state.currentFrameIndex + 1}
                   ELSE {})
           ELSE IF Len(layer.sequence.frames) > 0
                  THEN {layer.sequence.frames[
                          (state.currentFrameIndex % Len(layer.sequence.frames)) + 1]}
                  ELSE {1}

\* the Clear All button of the Animation Sequence panel
GaClearAll(layer) == [layer EXCEPT !.sequence.frames = << >>]

----
(***************************************************************************)
(* SpriteSequenceApp (EnhancedApp.tsx): a patrol when layer.animated, and  *)
(* the frame sequence.                                                     *)
(***************************************************************************)

\* createNewCharacter (SpriteSequenceApp): the layer
SsNewCharacterLayer ==
  [x |-> 500, y |-> 500, visible |-> TRUE,
   sprites |-> << >>,
   sequence |-> [frames |-> << >>, loop |-> TRUE],
   animated |-> FALSE, patrolWidth |-> 200, patrolSpeed |-> 50, flipOnTurn |-> TRUE]

\* createNewCharacter (SpriteSequenceApp): the animation state
SsInitialAnimationState(layer) ==
  [currentFrameIndex |-> 0,
   frameStartTime |-> 0,
   currentX |-> layer.x * Milli,
   direction |-> 1,
   flipped |-> FALSE]

\* "update movement animation"
SsStepPatrol(layer, state, deltaTime) ==
  IF layer.animated
    THEN LET newX == state.currentX + layer.patrolSpeed * deltaTime * state.direction
             leftBound == layer.x * Milli - (layer.patrolWidth * Milli) \div 2
             rightBound == layer.x * Milli + (layer.patrolWidth * Milli) \div 2
         IN  IF newX <= leftBound
               THEN [state EXCEPT !.currentX = leftBound, !.direction = 1,
                                  !.flipped = FALSE]
               ELSE IF newX >= rightBound
                      THEN [state EXCEPT !.currentX = rightBound, !.direction = -1,
                                         !.flipped = layer.flipOnTurn]
                      ELSE [state EXCEPT !.currentX = newX]
    ELSE state

\* "update sprite frame animation": the index moves on modulo the length and
\* a sequence that does not loop puts an index that wrapped to 0 back on the
\* last index
SsUpdateFrame(layer, state, currentTime) ==
  LET frames == layer.sequence.frames
      cur == CurrentFrame(layer, state)
  IN  IF Len(frames) > 0 /\ cur # {}
         /\ \A f \in cur : currentTime - state.frameStartTime > layer.sprites[f].duration
        THEN LET wrapped == (state.currentFrameIndex + 1) % Len(frames)
             IN  [state EXCEPT
                    !.currentFrameIndex =
                      IF ~layer.sequence.loop /\ wrapped = 0 THEN Len(frames) - 1
                                                             ELSE wrapped,
                    !.frameStartTime = currentTime]
        ELSE state

\* the body of layers.forEach in the SpriteSequenceApp animate, for one layer
SsAnimateLayer(layer, state, currentTime, deltaTime) ==
  IF ~layer.visible
    THEN state
    ELSE SsUpdateFrame(layer, SsStepPatrol(layer, state, deltaTime), currentTime)

\* ACTION_BLOCKS (actionBlocks.ts): the block handleAddAction makes from a
\* definition; an absent parameter is held as 0
NewBlock(type, duration, easing, height, distance, rotation, intensity, bounceCount, speed) ==
  [type |-> type, duration |-> duration, easing |-> easing, height |-> height,
   distance |-> distance, rotation |-> rotation, intensity |-> intensity,
   bounceCount |-> bounceCount, speed |-> speed]

ACTION_BLOCKS ==
  { NewBlock("jump",   500,  "easeOut",   100, 0,   0,   0,  0, 0),
    NewBlock("fall",   400,  "easeIn",    100, 0,   0,   0,  0, 0),
    NewBlock("land",   200,  "easeOut",   0,   0,   0,   1,  0, 0),
    NewBlock("idle",   1000, "linear",    0,   0,   0,   0,  0, 0),
    NewBlock("flip",   600,  "easeInOut", 50,  0,   360, 0,  0, 0),
    NewBlock("spin",   500,  "linear",    0,   0,   360, 0,  0, 0),
    NewBlock("bounce", 1000, "linear",    50,  100, 0,   0,  3, 0),
    NewBlock("float",  2000, "easeInOut", 30,  0,   0,   0,  0, 0),
    NewBlock("roll",   800,  "linear",    0,   200, 0,   0,  0, 1),
    NewBlock("attack", 300,  "easeOut",   0,   50,  0,   1,  0, 0),
    NewBlock("dodge",  400,  "easeInOut", 0,   100, 0,   0,  0, 0),
    NewBlock("hit",    300,  "easeOut",   0,   0,   0,   10, 0, 0) }

\* values typed into the editor's Duration field (SequenceEditor.tsx:95);
\* parseInt accepts a negative number
EditedDurations == {250, -100}

\* values picked in the editor's Easing select
EditedEasings == {"linear", "elastic"}

\* the blocks whose fields the model edits
EditedBlocks == { b \in ACTION_BLOCKS : b.type \in {"jump", "fall", "hit"} }

\* values the editor's Distance field stores (SequenceEditor.tsx:123):
\* parseInt(value) || 0, so a cleared field and a typed 0 both store 0
EditedDistances == {0}

\* the blocks whose Distance field the model edits
DistanceEditedBlocks == { b \in ACTION_BLOCKS : b.type = "roll" }

\* the blocks a timeline is made of: a library block as added, or with its
\* duration or its easing edited (handleUpdateBlock)
BlockVariants ==
  ACTION_BLOCKS
    \cup { [b EXCEPT !.duration = d] : b \in EditedBlocks, d \in EditedDurations }
    \cup { [b EXCEPT !.easing = e] : b \in EditedBlocks, e \in EditedEasings }
    \cup { [b EXCEPT !.distance = x] : b \in DistanceEditedBlocks, x \in EditedDistances }

\* longest timeline of the model
MaxBlocks == 2

BlockLists == UNION { [1..n -> BlockVariants] : n \in 0..MaxBlocks }

\* playhead times asked of the evaluator
QueryTimes == {-100, -1, 0, 100, 250, 399, 400, 499, 500, 600, 899, 900, 1500, 4000}

\* values Math.random() returns, times Milli
RandomValues == {0, 999}

RandomDraws == [1..3 -> RandomValues]

VARIABLES
  tlBlocks,   \* the block list given to calculateAnimation
  tlTime,     \* the time given to it
  tlCalls,    \* how many times it has been called with (tlBlocks, tlTime)
  tlIndex,    \* currentBlockIndex of the first call, 1-based; 0 is the code's -1
  tlProgress, \* blockProgress of the first call, times Milli
  tlFrame,    \* what the first call returned
  tlFrame2    \* what the second call returned

tlVars == <<tlBlocks, tlTime, tlCalls, tlIndex, tlProgress, tlFrame, tlFrame2>>

VARIABLES
  mvLayer,     \* MovementApp: the layer (CharacterLayer)
  mvState,     \* animationStates[layer.id] (AnimationState)
  mvNow,       \* performance.now() at the latest event, ms
  mvLastTime,  \* lastTimeRef.current
  mvPlaying,   \* isPlaying
  mvDts        \* the frame intervals the display produces in this run

mvVars == <<mvLayer, mvState, mvNow, mvLastTime, mvPlaying, mvDts>>

VARIABLES
  sqApp,       \* which app sequences the frames: "movement", "game" or "sprite"
  sqLayer,     \* that app's layer (CharacterLayer)
  sqState,     \* animationStates[layer.id]
  sqNow,       \* the timestamp of the latest frame callback, ms
  sqLastTime,  \* lastTimeRef.current
  sqDts        \* the frame intervals the display produces in this run

sqVars == <<sqApp, sqLayer, sqState, sqNow, sqLastTime, sqDts>>

VARIABLES
  lpApp,       \* the app whose tick loop this is: "movement", "game", "sprite",
               \* "animated" or "studio"
  lpPlaying,   \* isPlaying
  lpBlocks,    \* AnimationStudioApp: sequenceBlocks.length
  lpPlayhead,  \* AnimationStudioApp: currentTime, ms
  lpLastTime,  \* lastTimeRef.current
  lpNow,       \* performance.now() at the latest event, ms
  lpStart,     \* when the loop was last started or resumed
  lpTicks,     \* frame callbacks since then: 0, 1, or 2 for more
  lpDelta,     \* the deltaTime of the latest frame callback
  lpGap        \* the time from lpStart to the latest frame callback

lpVars == <<lpApp, lpPlaying, lpBlocks, lpPlayhead, lpLastTime, lpNow,
            lpStart, lpTicks, lpDelta, lpGap>>

VARIABLES
  esEasing,    \* the easing curve that is called
  esT,         \* its argument t, times Milli
  esCalled,    \* the call has returned
  esResult     \* what it returned, times Milli

esVars == <<esEasing, esT, esCalled, esResult>>

VARIABLES
  rfApp,       \* the app whose loop effect this is: "movement", "animated", "studio"
  rfPlaying,   \* isPlaying
  rfEmpty,     \* AnimationStudioApp: sequenceBlocks is empty
  rfDue,       \* a dependency of the loop effect changed and the effect has
               \* not re-run yet
  rfPending,   \* the frame callbacks requested and neither run nor cancelled:
               \* [id, playing], playing being the isPlaying the callback closed over
  rfRef,       \* animationFrameRef.current (0: unset)
  rfNextId,    \* the id the next requestAnimationFrame returns
  rfSteps,     \* how often the animation states were stepped in the latest
               \* display frame
  rfCleanup    \* the latest run of the loop effect returned a cleanup function

rfVars == <<rfApp, rfPlaying, rfEmpty, rfDue, rfPending, rfRef, rfNextId, rfSteps,
            rfCleanup>>

VARIABLES
  hsApp,       \* the editor with history: "movement" or "pro"
  hsLayers,    \* layers, as shown
  hsHistory,   \* history
  hsIndex,     \* historyIndex, from 0; -1 while the history is empty
  hsEdits,     \* how many edits have been made
  hsShown,     \* the layers that were shown before the latest undo
  hsLast       \* the latest operations: "edit", "undo", "redo", or "undo-redo"
               \* for an undo immediately followed by a redo

hsVars == <<hsApp, hsLayers, hsHistory, hsIndex, hsEdits, hsShown, hsLast>>

vars == <<tlVars, mvVars, sqVars, lpVars, esVars, rfVars, hsVars>>

\* createNewCharacter: the layer a new character starts as
NewCharacterLayer ==
  [x |-> 500, y |-> 500, visible |-> TRUE, spriteFacingDirection |-> "right",
   sprites |-> << >>,
   sequence |-> [frames |-> << >>, loop |-> TRUE],
   movement |->
     [type |-> "none", speed |-> 50, amplitude |-> 30, frequency |-> 2,
      patrolWidth |-> 200, patrolStartDirection |-> "right", flipOnTurn |-> TRUE,
      bounceHeight |-> 100, floatAmount |-> 20, jumpInterval |-> 2000,
      stalkerHideTime |-> 3000, stalkerChaseSpeed |-> 100]]

\* handleFileUpload: n uploaded sprites, each with duration 100; the ids are 1..n
UploadedSprites(n) == [i \in 1..n |-> [duration |-> 100]]

\* the tlVars of a run that is not about the timeline
TimelineIdle ==
  /\ tlBlocks = << >>
  /\ tlTime = 0
  /\ tlCalls = 0
  /\ tlIndex = 0
  /\ tlProgress = 0
  /\ tlFrame = NeutralFrame
  /\ tlFrame2 = NeutralFrame

\* the mvVars of a run that is not about MovementApp
MovementIdle ==
  /\ mvLayer = NewCharacterLayer
  /\ mvState = InitialAnimationState(NewCharacterLayer)
  /\ mvNow = 0
  /\ mvLastTime = 0
  /\ mvPlaying = FALSE
  /\ mvDts = {}

\* the esVars of a run that is not about the easing curves
EaseIdle ==
  /\ esEasing = "linear"
  /\ esT = 0
  /\ esCalled = FALSE
  /\ esResult = 0

\* the rfVars of a run that is not about the frame requests
FrameIdle ==
  /\ rfApp = "movement"
  /\ rfPlaying = FALSE
  /\ rfEmpty = FALSE
  /\ rfDue = FALSE
  /\ rfPending = {}
  /\ rfRef = 0
  /\ rfNextId = 1
  /\ rfSteps = 0
  /\ rfCleanup = TRUE

\* the hsVars of a run that is not about the history
HistoryIdle ==
  /\ hsApp = "movement"
  /\ hsLayers = 0
  /\ hsHistory = << >>
  /\ hsIndex = -1
  /\ hsEdits = 0
  /\ hsShown = 0
  /\ hsLast = "edit"

\* the lpVars of a run that is not about the tick loops
LoopIdle ==
  /\ lpApp = "movement"
  /\ lpPlaying = FALSE
  /\ lpBlocks = 0
  /\ lpPlayhead = 0
  /\ lpLastTime = 0
  /\ lpNow = 0
  /\ lpStart = 0
  /\ lpTicks = 0
  /\ lpDelta = 0
  /\ lpGap = 0

\* the sqVars of a run that is not about the three frame sequencers
SequencerIdle ==
  /\ sqApp = "movement"
  /\ sqLayer = NewCharacterLayer
  /\ sqState = InitialAnimationState(NewCharacterLayer)
  /\ sqNow = 0
  /\ sqLastTime = 0
  /\ sqDts = {}

TimelineInit ==
  /\ MovementIdle
  /\ EaseIdle
  /\ FrameIdle
  /\ HistoryIdle
  /\ SequencerIdle
  /\ LoopIdle
  /\ tlBlocks \in BlockLists
  /\ tlTime \in QueryTimes
  /\ tlCalls = 0
  /\ tlIndex = 0
  /\ tlProgress = 0
  /\ tlFrame = NeutralFrame
  /\ tlFrame2 = NeutralFrame

\* PreviewCanvas.tsx:53: a query of the evaluator at the playhead time
Evaluate ==
  /\ tlCalls = 0
  /\ \E rnd \in RandomDraws : tlFrame' = calculateAnimation(tlBlocks, tlTime, rnd)
  /\ tlIndex' = FindBlock(tlBlocks, tlTime, 1, 0).index
  /\ tlProgress' = BlockProgress(tlBlocks, tlTime)
  /\ tlCalls' = 1
  /\ UNCHANGED <<tlBlocks, tlTime, tlFrame2, mvVars, sqVars, lpVars, esVars, rfVars, hsVars>>

\* a second query with the same arguments
EvaluateAgain ==
  /\ tlCalls = 1
  /\ \E rnd \in RandomDraws : tlFrame2' = calculateAnimation(tlBlocks, tlTime, rnd)
  /\ tlCalls' = 2
  /\ UNCHANGED <<tlBlocks, tlTime, tlIndex, tlProgress, tlFrame, mvVars, sqVars, lpVars, esVars, rfVars, hsVars>>

TimelineNext ==
  \/ Evaluate
  \/ EvaluateAgain

SpecTimeline == TimelineInit /\ [][TimelineNext]_vars

----
\* helpers of the timeline claims

RECURSIVE SumDurations(_, _)
SumDurations(blocks, k) ==
  IF k = 0 THEN 0 ELSE SumDurations(blocks, k - 1) + blocks[k].duration

TotalDuration(blocks) == SumDurations(blocks, Len(blocks))

PositiveDurations(blocks) == \A i \in 1..Len(blocks) : blocks[i].duration > 0

\* the query lies inside the timeline's span
InsideSpan ==
  /\ PositiveDurations(tlBlocks)
  /\ 0 <= tlTime
  /\ tlTime < TotalDuration(tlBlocks)

\* C4: two calls of calculateAnimation with the same block list and the same
\* time return the same pose, whatever the type of the active block.
C4_Deterministic == tlCalls = 2 => tlFrame2 = tlFrame

C7_ActiveBlockAndProgress ==
  (tlCalls >= 1 /\ InsideSpan) =>
    /\ tlIndex \in 1..Len(tlBlocks)
    /\ \A i \in 1..Len(tlBlocks) :
         (SumDurations(tlBlocks, i - 1) <= tlTime /\ tlTime < SumDurations(tlBlocks, i))
           <=> i = tlIndex
    /\ tlProgress =
         ((tlTime - SumDurations(tlBlocks, tlIndex - 1)) * Milli)
           \div tlBlocks[tlIndex].duration
    /\ 0 <= tlProgress
    /\ tlProgress < Milli

\* durations [500, 400] sampled at t = 600: the second block at progress 0.25
C7_Witness ==
  /\ tlCalls >= 1
  /\ Len(tlBlocks) = 2
  /\ tlBlocks[1].type = "jump" /\ tlBlocks[1].duration = 500
  /\ tlBlocks[2].type = "fall" /\ tlBlocks[2].duration = 400
  /\ tlTime = 600
  /\ tlIndex = 2
  /\ tlProgress = 250

----
(***************************************************************************)
(* MovementApp under ticks: a character loaded with a behavior             *)
(* (loadCharacterFromCatalog) and played.                                  *)
(***************************************************************************)

\* slider and catalog values of the movement parameters
Speeds == {50, 200}

PatrolWidths == {0, 50, 200}

JumpIntervals == {2000, 0, -500}

StalkerHideTimes == {3000, 500}

\* the movement configurations of the model: a parameter varies only for the
\* behaviors that read it
MovementConfigs ==
  LET d == NewCharacterLayer.movement
  IN  { m \in [type : MovementTypes, speed : Speeds, amplitude : {d.amplitude},
               frequency : {d.frequency}, patrolWidth : PatrolWidths,
               patrolStartDirection : {"left", "right"}, flipOnTurn : BOOLEAN,
               bounceHeight : {d.bounceHeight}, floatAmount : {d.floatAmount},
               jumpInterval : JumpIntervals, stalkerHideTime : StalkerHideTimes,
               stalkerChaseSpeed : {d.stalkerChaseSpeed}] :
          /\ m.type \notin {"patrol", "bounce", "roll", "stalker"} => m.speed = d.speed
          /\ m.type \notin {"patrol", "bounce", "roll"} => m.patrolWidth = d.patrolWidth
          /\ m.type \notin {"patrol", "bounce", "roll", "stalker"}
               => m.patrolStartDirection = d.patrolStartDirection
          /\ m.type # "patrol" => m.flipOnTurn = d.flipOnTurn
          /\ m.type # "jump" => m.jumpInterval = d.jumpInterval
          /\ m.type # "stalker" => m.stalkerHideTime = d.stalkerHideTime }

\* the sequences of the model: none, or three frames of 100 ms
SequenceChoices ==
  { [frames |-> << >>, loop |-> TRUE],
    [frames |-> <<1, 2, 3>>, loop |-> TRUE],
    [frames |-> <<1, 2, 3>>, loop |-> FALSE] }

\* the layers loadCharacterFromCatalog places (at x = 500, y = 500)
LoadedLayers ==
  { [NewCharacterLayer EXCEPT !.movement = m, !.sequence = q,
                              !.spriteFacingDirection = f,
                              !.sprites = UploadedSprites(3)] :
      m \in MovementConfigs, q \in SequenceChoices, f \in {"left", "right"} }

\* frame intervals of a run: a steady display rate, or irregular frames
TickModes == { {16}, {250}, {700}, {0, 100, 250} }

\* the latest timestamp of a run at a steady rate, ms
MaxTime == 7000

\* the latest timestamp of a run with irregular frames, ms
MaxIrregularTime == 1500

TimeLimit(dts) == IF Cardinality(dts) = 1 THEN MaxTime ELSE MaxIrregularTime

MoveInit ==
  /\ TimelineIdle
  /\ EaseIdle
  /\ FrameIdle
  /\ HistoryIdle
  /\ SequencerIdle
  /\ LoopIdle
  /\ mvLayer \in { l \in LoadedLayers :
                     l.movement.type # "patrol" => l.spriteFacingDirection = "right" }
  /\ mvState = InitialAnimationState(mvLayer)
  /\ mvNow = 0
  /\ mvLastTime = 0
  /\ mvPlaying = TRUE
  /\ mvDts \in TickModes

\* animate(currentTime): the frame callback, dt after the previous one
MvAnimate(dt) ==
  /\ mvPlaying
  /\ mvNow + dt <= TimeLimit(mvDts)
  /\ mvNow' = mvNow + dt
  /\ LET deltaTime == mvNow' - mvLastTime
     IN  mvState' = AnimateLayer(mvLayer, mvState, mvNow', deltaTime)
  /\ mvLastTime' = mvNow'
  /\ UNCHANGED <<mvLayer, mvPlaying, mvDts, tlVars, sqVars, lpVars, esVars, rfVars, hsVars>>

MoveNext == \E dt \in mvDts : MvAnimate(dt)

SpecMove == MoveInit /\ [][MoveNext]_vars

\* C1: after every tick of a Patrol, Bounce or Roll actor created at its
\* anchor, anchor.x - patrolWidth/2 <= x <= anchor.x + patrolWidth/2.
C1_PatrolBounded ==
  mvLayer.movement.type \in {"patrol", "bounce", "roll"} =>
    /\ LeftBound(mvLayer) <= mvState.currentX
    /\ mvState.currentX <= RightBound(mvLayer)

\* speed 50, patrolWidth 200, anchor 500, 16 ms ticks: x has reached 600 and
\* the actor has turned
C1_Witness ==
  /\ mvLayer.movement.type = "patrol"
  /\ mvLayer.movement.speed = 50
  /\ mvLayer.movement.patrolWidth = 200
  /\ mvLayer.movement.patrolStartDirection = "right"
  /\ mvDts = {16}
  /\ mvState.currentX = 600 * Milli
  /\ mvState.direction = -1
  /\ mvNow <= 5000

\* C6: after every tick of a Bounce or Jump actor, currentY <= baseY and
\* baseY - currentY <= bounceHeight.
C6_VerticalOffsetBounded ==
  mvLayer.movement.type \in {"bounce", "jump"} =>
    /\ mvState.currentY <= mvState.baseY
    /\ mvState.baseY - mvState.currentY <= mvLayer.movement.bounceHeight * Milli

\* a Jump actor at the top of its arc, a quarter of the interval into the cycle
C6_Witness ==
  /\ mvLayer.movement.type = "jump"
  /\ mvLayer.movement.jumpInterval = 2000
  /\ mvState.jumpTimer = 500
  /\ mvState.baseY - mvState.currentY = mvLayer.movement.bounceHeight * Milli

\* the run ticks at one fixed positive delta-time
FixedDt == Cardinality(mvDts) = 1 /\ \A d \in mvDts : d > 0

TheDt == CHOOSE d \in mvDts : TRUE

\* the least multiple of d that is >= a
CeilMultiple(a, d) == ((a + d - 1) \div d) * d

\* the summed delta-times at which a stepped Stalker first is Retreating
RetreatAt ==
  CeilMultiple(mvLayer.movement.stalkerHideTime, TheDt) + CeilMultiple(1000, TheDt)

\* a Stalker actor stepped at a fixed positive delta-time from Hidden, timer 0;
\* the summed delta-times are mvNow (play starts at 0)
StalkerRun ==
  /\ mvLayer.movement.type = "stalker"
  /\ Stepped(mvLayer)
  /\ FixedDt

\* C2 as claimed: on the tick at which the summed delta-times reach
\* stalkerHideTime + 1000 ms, the Stalker state is Retreating.
C2_RetreatingAtHidePlus1000 ==
  (/\ StalkerRun
   /\ mvNow >= mvLayer.movement.stalkerHideTime + 1000
   /\ mvNow - TheDt < mvLayer.movement.stalkerHideTime + 1000)
    => mvState.stalkerState = "retreating"

\* C2 as amended: the Stalker state first is Retreating on the tick at which
\* the summed delta-times reach ceil(hide/dt) dt + ceil(1000/dt) dt, which is
\* hide + 1000 exactly when dt divides both hide and 1000.
C2_RetreatingAtRoundedTimes ==
  StalkerRun =>
    /\ mvNow < RetreatAt => mvState.stalkerState # "retreating"
    /\ mvNow = RetreatAt => mvState.stalkerState = "retreating"
    /\ (mvLayer.movement.stalkerHideTime % TheDt = 0 /\ 1000 % TheDt = 0)
         => RetreatAt = mvLayer.movement.stalkerHideTime + 1000

\* hide 3000, 16 ms ticks: Retreating at 3008 + 1008 = 4016 ms
C2_Witness ==
  /\ StalkerRun
  /\ mvLayer.movement.stalkerHideTime = 3000
  /\ mvDts = {16}
  /\ mvNow = 4016
  /\ mvState.stalkerState = "retreating"

----
(***************************************************************************)
(* The three frame sequencers under ticks: a character with an explicit    *)
(* sequence in MovementApp, GameAnimationsApp or SpriteSequenceApp, played *)
(* from t = 0.                                                             *)
(***************************************************************************)

\* the durations the frames of a run have (the duration inputs), ms
FrameDurations == {100, 200}

\* n sprites of duration d; the ids are 1..n
SpritesOf(n, d) == [i \in 1..n |-> [duration |-> d]]

\* the explicit sequences of the model
ExplicitSequences == [frames : {<<1, 2, 3>>, <<2, 1>>}, loop : BOOLEAN]

\* the layers of each app: created, sprites uploaded, a sequence built, and
\* the settings that decide whether and how the layer is stepped
SequencedLayers(app) ==
  CASE app = "movement" ->
         { [NewCharacterLayer EXCEPT !.sprites = SpritesOf(3, d), !.sequence = q,
                                     !.movement.type = t] :
             d \in FrameDurations, q \in ExplicitSequences,
             t \in {"none", "patrol", "float"} }
         \cup
         { [NewCharacterLayer EXCEPT !.sprites = SpritesOf(3, 100), !.sequence = q,
                                     !.movement.type = "patrol",
                                     !.movement.patrolWidth = 0,
                                     !.movement.patrolStartDirection = s] :
             q \in ExplicitSequences, s \in {"left", "right"} }
         \cup
         { [NewCharacterLayer EXCEPT !.sprites = SpritesOf(3, 100), !.sequence = q,
                                     !.movement.type = "jump",
                                     !.movement.jumpInterval = i] :
             q \in ExplicitSequences, i \in JumpIntervals }
    [] app = "game" ->
         { [GaNewCharacterLayer EXCEPT !.sprites = SpritesOf(3, d), !.sequence = q,
                                       !.customPatrolWidth = w] :
             d \in FrameDurations, q \in ExplicitSequences, w \in {0, 200} }
         \cup
         { GaApplyLayer([GaNewCharacterLayer EXCEPT !.sprites = SpritesOf(3, 100),
                                                   !.sequence = q],
                        GAME_ANIMATION_PRESETS[p]) :
             q \in ExplicitSequences, p \in DOMAIN GAME_ANIMATION_PRESETS }
         \cup
         \* a preset applied to a character with a single sprite
         { GaApplyLayer([GaNewCharacterLayer EXCEPT !.sprites = SpritesOf(1, 100)],
                        GAME_ANIMATION_PRESETS[p]) :
             p \in DOMAIN GAME_ANIMATION_PRESETS }
         \cup
         \* a preset applied, then the sequence emptied with Clear All
         { GaClearAll(GaApplyLayer([GaNewCharacterLayer EXCEPT
                                      !.sprites = SpritesOf(3, 100)],
                                   GAME_ANIMATION_PRESETS[p])) :
             p \in DOMAIN GAME_ANIMATION_PRESETS }
    [] app = "sprite" ->
         { [SsNewCharacterLayer EXCEPT !.sprites = SpritesOf(3, d), !.sequence = q,
                                       !.animated = a] :
             d \in FrameDurations, q \in ExplicitSequences, a \in BOOLEAN }

\* the animation state each app creates with the layer
CreatedState(app, layer) ==
  CASE app = "movement" -> InitialAnimationState(layer)
    [] app = "game" -> GaInitialAnimationState(layer)
    [] app = "sprite" -> SsInitialAnimationState(layer)

\* the per-layer body of each app's animate
AppAnimateLayer(app, layer, state, currentTime, deltaTime) ==
  CASE app = "movement" -> AnimateLayer(layer, state, currentTime, deltaTime)
    [] app = "game" -> GaAnimateLayer(layer, state, currentTime, deltaTime)
    [] app = "sprite" -> SsAnimateLayer(layer, state, currentTime, deltaTime)

SeqInit ==
  /\ TimelineIdle
  /\ EaseIdle
  /\ FrameIdle
  /\ HistoryIdle
  /\ MovementIdle
  /\ LoopIdle
  /\ sqApp \in {"movement", "game", "sprite"}
  /\ sqLayer \in SequencedLayers(sqApp)
  /\ sqState = CreatedState(sqApp, sqLayer)
  /\ sqNow = 0
  /\ sqLastTime = 0
  /\ sqDts \in TickModes

\* animate(currentTime) of the app, dt after the previous frame callback
SqAnimate(dt) ==
  /\ sqNow + dt <= TimeLimit(sqDts)
  /\ sqNow' = sqNow + dt
  /\ sqState' = AppAnimateLayer(sqApp, sqLayer, sqState, sqNow', sqNow' - sqLastTime)
  /\ sqLastTime' = sqNow'
  /\ UNCHANGED <<sqApp, sqLayer, sqDts, tlVars, mvVars, lpVars, esVars, rfVars, hsVars>>

SeqNext == \E dt \in sqDts : SqAnimate(dt)

SpecSeq == SeqInit /\ [][SeqNext]_vars

\* the tick sequences the explicit sequence of the layer: the layer is
\* visible and has frames, in MovementApp its behavior is not 'none', in
\* GameAnimationsApp it has no preset
SeqSequenced ==
  /\ sqLayer.visible
  /\ Len(sqLayer.sequence.frames) > 0
  /\ sqApp = "movement" => sqLayer.movement.type # "none"
  /\ sqApp = "game" => sqLayer.gameAnimation = {}

SeqLastIndex == Len(sqLayer.sequence.frames) - 1

\* at a frame callback at time now the duration of the active frame has
\* elapsed: at least the duration, in SpriteSequenceApp more than it
SeqElapsed(now) ==
  LET frames == sqLayer.sequence.frames
      duration == sqLayer.sprites[frames[sqState.currentFrameIndex + 1]].duration
  IN  IF sqApp = "sprite" THEN now - sqState.frameStartTime > duration
                          ELSE now - sqState.frameStartTime >= duration

\* three frames of 100 ms each that do not loop
ThreeFramesOnce ==
  /\ sqLayer.sequence.frames = <<1, 2, 3>>
  /\ ~sqLayer.sequence.loop
  /\ \A i \in 1..3 : sqLayer.sprites[i].duration = 100

\* the state is the one a sample at t = 1000 sees: the latest frame callback
\* was at or before 1000 and the next one can come after it
SampledAt1000 == sqNow <= 1000 /\ \E dt \in sqDts : sqNow + dt > 1000

ClampOrWrap ==
  (/\ SeqSequenced
   /\ sqState.currentFrameIndex = SeqLastIndex
   /\ SeqElapsed(sqNow'))
    => sqState'.currentFrameIndex = IF sqLayer.sequence.loop THEN 0 ELSE SeqLastIndex

C10_ZeroWidthStationary ==
  (\/ /\ sqApp = "movement"
      /\ sqLayer.movement.type = "patrol"
      /\ sqLayer.movement.patrolWidth = 0
   \/ /\ sqApp = "game"
      /\ sqLayer.customPatrolWidth = 0)
    => sqState.currentX = sqLayer.x * Milli

\* a zero-width Patrol actor of MovementApp after one tick of 16 ms: it has
\* turned and sits on its anchor
C10_Witness ==
  /\ sqApp = "movement"
  /\ sqLayer.movement.type = "patrol"
  /\ sqLayer.movement.patrolWidth = 0
  /\ Stepped(sqLayer)
  /\ sqDts = {16}
  /\ sqNow = 16
  /\ sqState.direction = -StartDirection(sqLayer)
  /\ sqState.currentX = sqLayer.x * Milli

----
(***************************************************************************)
(* MovementApp under edits: a character with three frames, the Play/Stop   *)
(* button, the movement type select and the frame callbacks.  mvNow is     *)
(* performance.now() at the latest event.                                  *)
(***************************************************************************)

\* the movement types the select is set to in the model
SelectedTypes == {"none", "patrol", "float", "jump", "stalker"}

\* the time between two events, ms
EventGaps == {0, 300}

\* the latest timestamp of a run with edits, ms
MaxEditTime == 1000

EditInit ==
  /\ TimelineIdle
  /\ EaseIdle
  /\ FrameIdle
  /\ HistoryIdle
  /\ SequencerIdle
  /\ LoopIdle
  /\ mvLayer = [NewCharacterLayer EXCEPT
                  !.sprites = UploadedSprites(3),
                  !.sequence = [frames |-> <<1, 2, 3>>, loop |-> TRUE]]
  /\ mvState = InitialAnimationState(mvLayer)
  /\ mvNow = 0
  /\ mvLastTime = 0
  /\ mvPlaying = FALSE
  /\ mvDts \in {{100}, {250}}

\* the Play/Stop button, gap after the previous event: setIsPlaying(!isPlaying)
\* and the effect on isPlaying, which sets lastTimeRef when the loop starts
EdTogglePlay(gap) ==
  /\ mvNow + gap <= MaxEditTime
  /\ mvNow' = mvNow + gap
  /\ mvPlaying' = ~mvPlaying
  /\ mvLastTime' = IF mvPlaying' THEN mvNow' ELSE mvLastTime
  /\ UNCHANGED <<mvLayer, mvState, mvDts, tlVars, sqVars, lpVars, esVars, rfVars, hsVars>>

\* the movement type select: setLayers only; animationStates is not touched.
\* animate is made anew from layers, so the effect runs again and, when
\* playing, sets lastTimeRef
EdSelectMovementType(movementType, gap) ==
  /\ movementType # mvLayer.movement.type
  /\ mvNow + gap <= MaxEditTime
  /\ mvNow' = mvNow + gap
  /\ mvLayer' = [mvLayer EXCEPT !.movement.type = movementType]
  /\ mvLastTime' = IF mvPlaying THEN mvNow' ELSE mvLastTime
  /\ UNCHANGED <<mvState, mvPlaying, mvDts, tlVars, sqVars, lpVars, esVars, rfVars, hsVars>>

\* animate(currentTime), dt after the previous event
EdAnimate(dt) ==
  /\ mvPlaying
  /\ mvNow + dt <= MaxEditTime
  /\ mvNow' = mvNow + dt
  /\ mvState' = AnimateLayer(mvLayer, mvState, mvNow', mvNow' - mvLastTime)
  /\ mvLastTime' = mvNow'
  /\ UNCHANGED <<mvLayer, mvPlaying, mvDts, tlVars, sqVars, lpVars, esVars, rfVars, hsVars>>

EditNext ==
  \/ \E gap \in EventGaps : EdTogglePlay(gap)
  \/ \E t \in SelectedTypes, gap \in EventGaps : EdSelectMovementType(t, gap)
  \/ \E dt \in mvDts : EdAnimate(dt)

SpecEdit == EditInit /\ [][EditNext]_vars

\* the fields of the animation state that the behaviors integrate
BehaviorFields(state) ==
  [f \in {"currentX", "currentY", "baseY", "rotation", "bouncePhase", "floatPhase",
          "jumpTimer", "stalkerState", "stalkerTimer"} |-> state[f]]

\* C9: whenever the behavior type of an actor is changed, its BehaviorState
\* is reset to its creation values (x = anchor.x, y = baseY, rotation 0,
\* phases and timers 0, Stalker state Hidden).
C9_ResetOnTypeChange ==
  [][mvLayer'.movement.type # mvLayer.movement.type
       => BehaviorFields(mvState') = BehaviorFields(InitialAnimationState(mvLayer'))]_vars

----
(***************************************************************************)
(* The tick loops of the five apps: the Play/Stop button, the frame        *)
(* callbacks, and in AnimationStudioApp the sequence edits and Reset.      *)
(***************************************************************************)

LoopApps == {"movement", "game", "sprite", "animated", "studio"}

\* the time between two events: a display frame, or a pause, ms
LoopGaps == {100, 400}

\* the latest timestamp of a run, ms
MaxLoopTime == 1200

\* the most blocks the studio sequence holds
MaxLoopBlocks == 2

\* the studio blocks are jump-basic blocks of 500 ms
LoopTotalDuration(n) == n * 500

\* the effect has a frame requested: isPlaying, and in AnimationStudioApp a
\* sequence that is not empty
LoopRunning(app, playing, blocks) == playing /\ (app = "studio" => blocks > 0)

\* the ghost variables when the loop goes from not running to running at now
LoopStarts(now) ==
  IF ~LoopRunning(lpApp, lpPlaying, lpBlocks) /\ LoopRunning(lpApp, lpPlaying', lpBlocks')
    THEN lpStart' = now /\ lpTicks' = 0
    ELSE UNCHANGED <<lpStart, lpTicks>>

LoopInit ==
  /\ TimelineIdle
  /\ EaseIdle
  /\ FrameIdle
  /\ HistoryIdle
  /\ MovementIdle
  /\ SequencerIdle
  /\ lpApp \in LoopApps
  /\ lpPlaying = FALSE
  /\ lpBlocks \in (IF lpApp = "studio" THEN 0..1 ELSE {0})
  /\ lpPlayhead = 0
  /\ lpLastTime = 0
  /\ lpNow = 0
  /\ lpStart = 0
  /\ lpTicks = 0
  /\ lpDelta = 0
  /\ lpGap = 0

\* the Play button.  MovementApp and GameAnimationsApp: the effect sets
\* lastTimeRef to performance.now(); SpriteSequenceApp and AnimatedApp: the
\* effect only requests a frame; AnimationStudioApp: handlePlay returns on an
\* empty sequence and sets lastTimeRef to 0
LpPlay(gap) ==
  /\ ~lpPlaying
  /\ lpNow + gap <= MaxLoopTime
  /\ lpNow' = lpNow + gap
  /\ IF lpApp = "studio" /\ lpBlocks = 0
       THEN UNCHANGED <<lpPlaying, lpLastTime>>
       ELSE /\ lpPlaying' = TRUE
            /\ lpLastTime' = CASE lpApp \in {"movement", "game"} -> lpNow'
                                [] lpApp = "studio" -> 0
                                [] OTHER -> lpLastTime
  /\ UNCHANGED <<lpApp, lpBlocks, lpPlayhead, lpDelta, lpGap>>
  /\ LoopStarts(lpNow')
  /\ UNCHANGED <<tlVars, mvVars, sqVars, esVars, rfVars, hsVars>>

\* the Stop or Pause button: setIsPlaying(false); the effect cancels the frame
LpPause(gap) ==
  /\ lpPlaying
  /\ lpNow + gap <= MaxLoopTime
  /\ lpNow' = lpNow + gap
  /\ lpPlaying' = FALSE
  /\ UNCHANGED <<lpApp, lpBlocks, lpPlayhead, lpLastTime, lpStart, lpTicks,
                 lpDelta, lpGap>>
  /\ UNCHANGED <<tlVars, mvVars, sqVars, esVars, rfVars, hsVars>>

\* animate: the frame callback, gap after the previous event.  In
\* AnimationStudioApp a lastTimeRef of 0 is first set to the timestamp, and
\* the playhead moves on by deltaTime and stops the loop at the total
LpAnimate(gap) ==
  /\ LoopRunning(lpApp, lpPlaying, lpBlocks)
  /\ lpNow + gap <= MaxLoopTime
  /\ lpNow' = lpNow + gap
  /\ LET last == IF lpApp = "studio" /\ lpLastTime = 0 THEN lpNow' ELSE lpLastTime
         deltaTime == lpNow' - last
         ends == lpApp = "studio"
                   /\ lpPlayhead + deltaTime >= LoopTotalDuration(lpBlocks)
     IN  /\ lpDelta' = deltaTime
         /\ lpPlayhead' = IF lpApp # "studio" \/ ends THEN 0 ELSE lpPlayhead + deltaTime
         /\ lpPlaying' = ~ends
  /\ lpLastTime' = lpNow'
  /\ lpGap' = lpNow' - lpStart
  /\ lpTicks' = IF lpTicks = 0 THEN 1 ELSE 2
  /\ UNCHANGED <<lpApp, lpBlocks, lpStart>>
  /\ UNCHANGED <<tlVars, mvVars, sqVars, esVars, rfVars, hsVars>>

\* AnimationStudioApp, handleAddAction: a block is appended
LpAddAction(gap) ==
  /\ lpApp = "studio"
  /\ lpBlocks < MaxLoopBlocks
  /\ lpNow + gap <= MaxLoopTime
  /\ lpNow' = lpNow + gap
  /\ lpBlocks' = lpBlocks + 1
  /\ UNCHANGED <<lpApp, lpPlaying, lpPlayhead, lpLastTime, lpDelta, lpGap>>
  /\ LoopStarts(lpNow')
  /\ UNCHANGED <<tlVars, mvVars, sqVars, esVars, rfVars, hsVars>>

\* AnimationStudioApp, handleRemoveBlock: a block is removed
LpRemoveBlock(gap) ==
  /\ lpApp = "studio"
  /\ lpBlocks > 0
  /\ lpNow + gap <= MaxLoopTime
  /\ lpNow' = lpNow + gap
  /\ lpBlocks' = lpBlocks - 1
  /\ UNCHANGED <<lpApp, lpPlaying, lpPlayhead, lpLastTime, lpStart, lpTicks,
                 lpDelta, lpGap>>
  /\ UNCHANGED <<tlVars, mvVars, sqVars, esVars, rfVars, hsVars>>

\* AnimationStudioApp, handleReset
LpReset(gap) ==
  /\ lpApp = "studio"
  /\ lpNow + gap <= MaxLoopTime
  /\ lpNow' = lpNow + gap
  /\ lpPlaying' = FALSE
  /\ lpPlayhead' = 0
  /\ lpLastTime' = 0
  /\ UNCHANGED <<lpApp, lpBlocks, lpStart, lpTicks, lpDelta, lpGap>>
  /\ UNCHANGED <<tlVars, mvVars, sqVars, esVars, rfVars, hsVars>>

LoopNext ==
  \E gap \in LoopGaps :
    \/ LpPlay(gap)
    \/ LpPause(gap)
    \/ LpAnimate(gap)
    \/ LpAddAction(gap)
    \/ LpRemoveBlock(gap)
    \/ LpReset(gap)

SpecLoop == LoopInit /\ [][LoopNext]_vars

\* C8: in each app with a tick loop, the delta-time of the first tick after
\* the loop is started or resumed does not include the time during which the
\* loop was not running: it is at most the time since the (re)start.
C8_FirstDeltaExcludesPause == lpTicks = 1 => lpDelta <= lpGap

\* the preset of the GameAnimationsApp layer of the run, as a set
SeqPreset == IF sqApp = "game" THEN sqLayer.gameAnimation ELSE {}

PrescribesMissingSprite ==
  \E preset \in SeqPreset :
    \E k \in DOMAIN preset.spriteSequence.frameOrder :
      preset.spriteSequence.frameOrder[k] + 1 \notin DOMAIN sqLayer.sprites

\* C12: when the preset's frame order names a sprite index the actor does not
\* have, the frame resolved for the actor at every tick is its first sprite;
\* the actor never resolves to no frame at all.
C12_FirstSpriteFallback ==
  (sqLayer.visible /\ Len(sqLayer.sprites) > 0 /\ PrescribesMissingSprite)
    => GaResolveFrame(sqLayer, sqState) = {1}

\* the step is a frame callback of MovementApp: the loop is and stays
\* playing and the layer is not edited
EdTick == mvPlaying /\ mvPlaying' /\ mvLayer' = mvLayer

\* C13: for an actor whose behavior is None a tick is the identity: every
\* field of its animation state, the frame index and the frame start time
\* included, is unchanged by the tick.
C13_NoneIsIdentity ==
  [][(EdTick /\ mvLayer.movement.type = "none") => mvState' = mvState]_vars

\* 100 ms callbacks: one as Jump (jumpTimer 100), then set to None, and two
\* more callbacks that left the state as the jump tick made it
C13_Witness ==
  /\ mvLayer.movement.type = "none"
  /\ mvPlaying
  /\ mvDts = {100}
  /\ mvNow = 300
  /\ mvLastTime = 300
  /\ mvState.jumpTimer = 100
  /\ mvState.currentX = mvLayer.x * Milli
  /\ mvState.floatPhase = 0
  /\ mvState.stalkerTimer = 0
  /\ mvState.frameStartTime = 100

----
(***************************************************************************)
(* The easing curves, called on arguments in [0, 1].                       *)
(***************************************************************************)

\* the arguments are the multiples of 1 / EaseSteps
EaseSteps == 20

EaseArguments == { (k * Milli) \div EaseSteps : k \in 0..EaseSteps }

EaseInit ==
  /\ TimelineIdle
  /\ MovementIdle
  /\ SequencerIdle
  /\ LoopIdle
  /\ FrameIdle
  /\ HistoryIdle
  /\ esEasing \in EasingTypes
  /\ esT \in EaseArguments
  /\ esCalled = FALSE
  /\ esResult = 0

\* easingFunctions[easing](t)
CallEase ==
  /\ ~esCalled
  /\ esResult' = Ease(esEasing, esT)
  /\ esCalled' = TRUE
  /\ UNCHANGED <<esEasing, esT, tlVars, mvVars, sqVars, lpVars, rfVars, hsVars>>

EaseNext == CallEase

SpecEase == EaseInit /\ [][EaseNext]_vars

\* C14: each of the six easing curves returns exactly 0 for input 0 and
\* exactly 1 for input 1.
C14_EasingEndpoints ==
  esCalled =>
    /\ esT = 0 => esResult = 0
    /\ esT = Milli => esResult = Milli

\* bounce called on 1 has returned 1
C14_Witness ==
  /\ esCalled
  /\ esEasing = "bounce"
  /\ esT = Milli
  /\ esResult = Milli

\* the x a Patrol, Bounce or Roll tick of MovementApp advances to, before the
\* bounds are looked at
AdvancedX ==
  mvState.currentX + mvLayer.movement.speed * (mvNow' - mvLastTime) * mvState.direction

\* C15: in a Patrol, Bounce or Roll tick in which the advanced x reaches or
\* passes a bound, x is set exactly to that bound and the direction points
\* back into the interval (+1 at the left bound, -1 at the right bound), for
\* every delta-time >= 0.
C15_TurnPointsInward ==
  [][(Stepped(mvLayer) /\ mvLayer.movement.type \in {"patrol", "bounce", "roll"})
       => /\ AdvancedX <= LeftBound(mvLayer)
               => (mvState'.currentX = LeftBound(mvLayer) /\ mvState'.direction = 1)
          /\ (AdvancedX > LeftBound(mvLayer) /\ AdvancedX >= RightBound(mvLayer))
               => (mvState'.currentX = RightBound(mvLayer) /\ mvState'.direction = -1)
    ]_vars

\* C16: a Stalker created at its anchor has x = anchor.x in every Hidden
\* state; a Retreating tick that finds |x - anchor.x| <= 5 sets x to anchor.x,
\* the state to Hidden and the timer to 0; no Hidden tick moves x.
C16_HiddenAtAnchor ==
  /\ []((mvLayer.movement.type = "stalker" /\ mvState.stalkerState = "hidden")
           => mvState.currentX = mvLayer.x * Milli)
  /\ [][(/\ mvLayer.movement.type = "stalker"
          /\ Stepped(mvLayer)
          /\ mvState.stalkerState = "retreating"
          /\ Abs(mvState.currentX - mvLayer.x * Milli) <= 5 * Milli)
           => (/\ mvState'.currentX = mvLayer.x * Milli
               /\ mvState'.stalkerState = "hidden"
               /\ mvState'.stalkerTimer = 0)]_vars
  /\ [][(mvLayer.movement.type = "stalker" /\ mvState.stalkerState = "hidden")
           => mvState'.currentX = mvState.currentX]_vars

\* C16 witness: a Stalker back in Hidden after a whole hide, chase and retreat
C16_Witness ==
  /\ mvLayer.movement.type = "stalker"
  /\ Stepped(mvLayer)
  /\ mvState.stalkerState = "hidden"
  /\ mvNow - mvState.stalkerTimer >= mvLayer.movement.stalkerHideTime + 1000
  /\ mvState.currentX = mvLayer.x * Milli

\* the horizontal displacement a block has reached at the end of its duration:
\* its own x at progress 1
EndDisplacement(block) ==
  BlockFrame(block, Ease(IF block.easing = "" THEN "linear" ELSE block.easing, Milli),
             <<0, 0, 0>>).x

RECURSIVE EndDrift(_, _)
EndDrift(blocks, k) ==
  IF k = 0 THEN 0
  ELSE EndDrift(blocks, k - 1) +
       (IF blocks[k].type \in {"jump", "bounce", "float", "roll"}
          THEN EndDisplacement(blocks[k])
          ELSE 0)

\* C17: when block k is active, the pose x is the active block's own x plus
\* the sum, over the completed earlier blocks of type jump, bounce, float or
\* roll, of the horizontal displacement that block had reached at the end of
\* its duration (other types add nothing), also when distance is absent or 0.
C17_DriftIsEndDisplacement ==
  (tlCalls >= 1 /\ tlIndex > 0)
    => \E rnd \in RandomDraws :
         tlFrame.x =
           BlockFrame(tlBlocks[tlIndex],
                      Ease(IF tlBlocks[tlIndex].easing = "" THEN "linear"
                           ELSE tlBlocks[tlIndex].easing, tlProgress),
                      rnd).x
           + EndDrift(tlBlocks, tlIndex - 1)

\* now - frameStartTime >= duration of the active frame (equality included)
SeqDurationReached(now) ==
  LET frames == sqLayer.sequence.frames
  IN  now - sqState.frameStartTime
        >= sqLayer.sprites[frames[sqState.currentFrameIndex + 1]].duration

\* C18: on a tick of an explicit frame sequence the advance runs if and only
\* if now - frameStartTime >= the active frame's duration (equality included),
\* and frameStartTime is set to now exactly when it runs, in every app that
\* sequences explicit frames.
C18_AdvanceIffReached ==
  [][SeqSequenced =>
       IF SeqDurationReached(sqNow')
         THEN /\ sqState'.frameStartTime = sqNow'
              /\ sqState'.currentFrameIndex =
                   IF sqState.currentFrameIndex < SeqLastIndex
                     THEN sqState.currentFrameIndex + 1
                     ELSE IF sqLayer.sequence.loop THEN 0 ELSE SeqLastIndex
         ELSE /\ sqState'.frameStartTime = sqState.frameStartTime
              /\ sqState'.currentFrameIndex = sqState.currentFrameIndex
    ]_vars

\* a tick of a visible GameAnimationsApp layer with a preset applied
PresetTick == sqApp = "game" /\ sqLayer.visible /\ SeqPreset # {}

\* the tick advances the preset sequence: the duration at sequenceIndex
\* (100 when absent or 0) has elapsed
PresetAdvance ==
  LET preset == CHOOSE g \in SeqPreset : TRUE
      durs == preset.spriteSequence.frameDurations
      si == sqState.sequenceIndex
  IN  sqNow' - sqState.frameStartTime
        >= OrDefault(IF si + 1 \in DOMAIN durs THEN durs[si + 1] ELSE 0, 100)

\* C19: with a preset applied, 0 <= sequenceIndex < frameOrder.length after
\* every tick; an advance sets sequenceIndex to (sequenceIndex + 1) mod
\* frameOrder.length and currentFrameIndex to frameOrder[sequenceIndex] (on
\* which the blink overlay of a preset with a blink descriptor then acts);
\* the loop flag never makes the preset sequence clamp.
C19_PresetSequenceWraps ==
  /\ [](PresetTick =>
          LET preset == CHOOSE g \in SeqPreset : TRUE
          IN  /\ 0 <= sqState.sequenceIndex
              /\ sqState.sequenceIndex < Len(preset.spriteSequence.frameOrder))
  /\ [][(PresetTick /\ PresetAdvance) =>
          LET preset == CHOOSE g \in SeqPreset : TRUE
              order == preset.spriteSequence.frameOrder
              si == (sqState.sequenceIndex + 1) % Len(order)
              base == order[si + 1]
              blinks == preset.movement.blinkPattern
          IN  /\ sqState'.sequenceIndex = si
              /\ sqState'.frameStartTime = sqNow'
              /\ blinks = {} => sqState'.currentFrameIndex = base
              /\ \A b \in blinks :
                    sqState'.currentFrameIndex =
                      IF sqState'.blinkTimer % (b.interval + b.duration) >= b.interval
                        THEN b.frameIndex
                        ELSE IF base = b.frameIndex THEN 0 ELSE base
         ]_vars

\* C19 witness: a preset sequence of four entries on a layer whose loop flag
\* is off has wrapped from its last entry to the first
C19_Witness ==
  /\ PresetTick
  /\ ~sqLayer.sequence.loop
  /\ Len((CHOOSE g \in SeqPreset : TRUE).spriteSequence.frameOrder) = 4
  /\ sqState.sequenceIndex = 0
  /\ sqState.frameStartTime = sqNow
  /\ sqNow >= 1200

\* the blink descriptor of the applied preset, as a set
SeqBlink == UNION { g.movement.blinkPattern : g \in SeqPreset }

\* C20: with a blink descriptor present, after every tick the active frame
\* index is the blink frame when blinkTimer mod (interval + duration) >=
\* interval and the default frame index 0 when it is < interval, whatever the
\* base sequence selected in that tick.
C20_BlinkOverrides ==
  (PresetTick /\ SeqBlink # {}) =>
    \A b \in SeqBlink :
      sqState.currentFrameIndex =
        IF sqState.blinkTimer % (b.interval + b.duration) >= b.interval
          THEN b.frameIndex
          ELSE 0

\* C20 witness: after a tick the active frame differs from the entry of
\* frameOrder the base sequence stands on, in the blink phase and in the
\* normal phase
C20_Witness ==
  /\ PresetTick
  /\ SeqBlink # {}
  /\ sqNow > 0
  /\ sqState.blinkTimer = sqNow
  /\ sqState.currentFrameIndex
       # (CHOOSE g \in SeqPreset : TRUE).spriteSequence.frameOrder[sqState.sequenceIndex + 1]

\* C21: the frame resolved for display follows the priority preset > explicit
\* sequence > first sprite, and the live canvas draw and the image export
\* resolve the same frame for the same layer state, including when a preset
\* is present and the explicit sequence has been cleared.
C21_DrawAndExportAgree ==
  sqApp = "game" =>
    /\ GaExportFrame(sqLayer, sqState) = GaResolveFrame(sqLayer, sqState)
    /\ (sqLayer.visible /\ SeqPreset # {}
         /\ sqState.currentFrameIndex + 1 \in DOMAIN sqLayer.sprites)
          => GaExportFrame(sqLayer, sqState) = {sqState.currentFrameIndex + 1}

----
(***************************************************************************)
(* The loop effects: requestAnimationFrame / cancelAnimationFrame in       *)
(* MovementApp, AnimatedApp and AnimationStudioApp.                        *)
(***************************************************************************)

LoopEffectApps == {"movement", "animated", "studio"}

\* ids requestAnimationFrame hands out in a run of the model
MaxRequests == 7

\* cancelAnimationFrame(id): the request with that id, if still pending, is dropped
CancelFrame(pending, id) == { cb \in pending : cb.id # id }

\* mutant of EffectCleanup: the cleanup cancels nothing
EffectCleanup_Keeps(pending, ref, registered) == pending

\* the cleanup function of the previous run of the effect, when it returned one:
\* if (animationFrameRef.current) cancelAnimationFrame(animationFrameRef.current)
EffectCleanup(pending, ref, registered) ==
  IF registered /\ ref # 0 THEN CancelFrame(pending, ref) ELSE pending

\* a frame callback steps the animation states: MovementApp's animate returns
\* at once when the isPlaying it closed over is false
CallbackSteps(app, cb) == app = "movement" => cb.playing

\* the body of the effect goes on to request a frame
EffectRequests ==
  rfPlaying /\ (rfApp = "studio" => ~rfEmpty)

FrameInit ==
  /\ TimelineIdle
  /\ MovementIdle
  /\ SequencerIdle
  /\ LoopIdle
  /\ EaseIdle
  /\ HistoryIdle
  /\ rfApp \in LoopEffectApps
  /\ rfPlaying = FALSE
  /\ rfEmpty \in {e \in BOOLEAN : e => rfApp = "studio"}
  /\ rfDue = FALSE
  /\ rfPending = {}
  /\ rfRef = 0
  /\ rfNextId = 1
  /\ rfSteps = 0
  \* the mount run of the effect, with isPlaying false
  /\ rfCleanup = (rfApp = "movement")

\* Play / Pause (Stop): isPlaying changes, the effect is due
RfTogglePlay ==
  /\ rfPlaying' = ~rfPlaying
  /\ rfDue' = TRUE
  /\ UNCHANGED <<rfApp, rfEmpty, rfPending, rfRef, rfNextId, rfSteps, rfCleanup>>
  /\ UNCHANGED <<tlVars, mvVars, sqVars, lpVars, esVars, hsVars>>

\* an edit of the layers (of the blocks in AnimationStudioApp) made while
\* playing: the dependency changes, the effect is due
RfEdit(empty) ==
  /\ rfPlaying
  /\ empty => rfApp = "studio"
  /\ rfEmpty' = empty
  /\ rfDue' = TRUE
  /\ UNCHANGED <<rfApp, rfPlaying, rfPending, rfRef, rfNextId, rfSteps, rfCleanup>>
  /\ UNCHANGED <<tlVars, mvVars, sqVars, lpVars, esVars, hsVars>>

\* the effect re-runs: the cleanup of the previous run, then the body
RfEffect ==
  /\ rfDue
  /\ LET cleaned == EffectCleanup(rfPending, rfRef, rfCleanup)
     IN  IF EffectRequests
           THEN /\ rfNextId <= MaxRequests
                /\ rfPending' = cleaned \cup {[id |-> rfNextId, playing |-> TRUE]}
                /\ rfRef' = rfNextId
                /\ rfNextId' = rfNextId + 1
                /\ rfCleanup' = TRUE
           ELSE /\ rfPending' = IF rfRef # 0 THEN CancelFrame(cleaned, rfRef) ELSE cleaned
                /\ rfCleanup' = (rfApp = "movement")
                /\ UNCHANGED <<rfRef, rfNextId>>
  /\ rfDue' = FALSE
  /\ UNCHANGED <<rfApp, rfPlaying, rfEmpty, rfSteps>>
  /\ UNCHANGED <<tlVars, mvVars, sqVars, lpVars, esVars, hsVars>>

\* a display frame: the browser runs every callback that was pending when the
\* frame began; a callback that steps requests the next frame for itself.
\* ended: AnimationStudioApp's playhead reached the total (setIsPlaying(false))
RfFrame(ended) ==
  /\ rfPending # {}
  /\ ended => (rfApp = "studio" /\ rfPlaying)
  /\ LET n == Cardinality({ cb \in rfPending : CallbackSteps(rfApp, cb) })
     IN  /\ rfNextId + n - 1 <= MaxRequests
         /\ rfSteps' = n
         /\ rfPending' = { [id |-> i, playing |-> TRUE] : i \in rfNextId..(rfNextId + n - 1) }
         /\ rfRef' = IF n > 0 THEN rfNextId + n - 1 ELSE rfRef
         /\ rfNextId' = rfNextId + n
         \* AnimationStudioApp: currentTime is a dependency of the effect
         /\ rfDue' = (rfDue \/ (rfApp = "studio" /\ n > 0))
  /\ rfPlaying' = IF ended THEN FALSE ELSE rfPlaying
  /\ UNCHANGED <<rfApp, rfEmpty, rfCleanup>>
  /\ UNCHANGED <<tlVars, mvVars, sqVars, lpVars, esVars, hsVars>>

FrameNext ==
  \/ RfTogglePlay
  \/ \E empty \in BOOLEAN : RfEdit(empty)
  \/ RfEffect
  \/ \E ended \in BOOLEAN : RfFrame(ended)

SpecFrame == FrameInit /\ [][FrameNext]_vars

\* C22: across any interleaving of Play, Pause and edits made while playing,
\* at most one frame callback is pending at any time, so the animation states
\* are stepped at most once per display frame.
C22_OnePendingCallback ==
  /\ Cardinality(rfPending) <= 1
  /\ rfSteps <= 1

\* C22 witness: the loop plays, effect re-runs have cancelled and replaced
\* requested frames, and the latest display frame stepped the states
C22_Witness ==
  /\ rfPlaying
  /\ ~rfDue
  /\ rfSteps = 1
  /\ rfNextId >= 5
  /\ rfPending = {[id |-> rfRef, playing |-> TRUE]}

----
(***************************************************************************)
(* MovementApp: ticks interleaved with the Start Direction and the Sprite  *)
(* Faces Direction buttons, for a Patrol or Bounce actor that flips on a   *)
(* turn.                                                                   *)
(***************************************************************************)

\* the latest timestamp of a run with direction buttons, ms
MaxFlipTime == 1000

FlipInit ==
  /\ TimelineIdle
  /\ EaseIdle
  /\ FrameIdle
  /\ HistoryIdle
  /\ SequencerIdle
  /\ LoopIdle
  /\ mvLayer \in { [NewCharacterLayer EXCEPT
                       !.sprites = UploadedSprites(3),
                       !.sequence = [frames |-> <<1, 2, 3>>, loop |-> TRUE],
                       !.movement.type = t,
                       !.movement.speed = 200,
                       !.movement.patrolWidth = 50,
                       !.movement.flipOnTurn = TRUE] : t \in {"patrol", "bounce"} }
  /\ mvState = InitialAnimationState(mvLayer)
  /\ mvNow = 0
  /\ mvLastTime = 0
  /\ mvPlaying = TRUE
  /\ mvDts \in {{100}, {250}}

\* a Start Direction button: patrolStartDirection, and direction and flipped
\* of the animation state; the effect on animate sets lastTimeRef
FlPressStartDirection(dir, gap) ==
  /\ mvNow + gap <= MaxFlipTime
  /\ mvNow' = mvNow + gap
  /\ mvLayer' = [mvLayer EXCEPT !.movement.patrolStartDirection = dir]
  /\ mvState' = [mvState EXCEPT
                   !.direction = IF dir = "left" THEN -1 ELSE 1,
                   !.flipped = IF dir = "left"
                                 THEN mvLayer.spriteFacingDirection = "right"
                                 ELSE mvLayer.spriteFacingDirection = "left"]
  /\ mvLastTime' = mvNow'
  /\ UNCHANGED <<mvPlaying, mvDts, tlVars, sqVars, lpVars, esVars, rfVars, hsVars>>

\* a Sprite Faces Direction button: spriteFacingDirection, and flipped from
\* the layer's patrolStartDirection
FlPressSpriteFaces(face, gap) ==
  /\ mvNow + gap <= MaxFlipTime
  /\ mvNow' = mvNow + gap
  /\ mvLayer' = [mvLayer EXCEPT !.spriteFacingDirection = face]
  /\ LET movingLeft == mvLayer.movement.patrolStartDirection = "left"
     IN  mvState' = [mvState EXCEPT
                       !.flipped = IF face = "left" THEN ~movingLeft ELSE movingLeft]
  /\ mvLastTime' = mvNow'
  /\ UNCHANGED <<mvPlaying, mvDts, tlVars, sqVars, lpVars, esVars, rfVars, hsVars>>

FlipNext ==
  \/ \E dt \in mvDts : EdAnimate(dt)
  \/ \E dir \in {"left", "right"}, gap \in EventGaps : FlPressStartDirection(dir, gap)
  \/ \E face \in {"left", "right"}, gap \in EventGaps : FlPressSpriteFaces(face, gap)

SpecFlip == FlipInit /\ [][FlipNext]_vars

\* C23: for a Patrol or Bounce actor with flipOnTurn enabled, in every
\* reachable state flipped = ((faces right and direction = -1) or (faces left
\* and direction = +1)), across any interleaving of ticks, Start Direction
\* presses and Sprite Faces Direction presses.
C23_FlippedFollowsDirection ==
  (mvLayer.movement.type \in {"patrol", "bounce"} /\ mvLayer.movement.flipOnTurn)
    => mvState.flipped = FlipFor(mvLayer, mvState.direction)

----
(***************************************************************************)
(* MovementApp: a Stalker actor ticked forever at a fixed delta-time.      *)
(* animate reads the clock only in differences, so the clock is held       *)
(* relative to the latest frame callback: mvNow stays 0 and frameStartTime *)
(* is moved back by the delta-time after each tick.                        *)
(***************************************************************************)

\* speeds of the Speed slider (min 10, max 200)
StalkerSpeeds == {50, 150, 200}

\* the state after the clock's origin is moved forward by t.  The timer of a
\* Retreating actor is read by no branch before the return to Hidden sets it
\* to 0, so it is not kept
Rebase(state, t) ==
  [state EXCEPT !.frameStartTime = @ - t,
                !.stalkerTimer = IF state.stalkerState = "retreating" THEN 0 ELSE @]

StalkInit ==
  /\ TimelineIdle
  /\ EaseIdle
  /\ FrameIdle
  /\ HistoryIdle
  /\ SequencerIdle
  /\ LoopIdle
  /\ mvLayer \in { [NewCharacterLayer EXCEPT
                       !.sprites = UploadedSprites(3),
                       !.sequence = [frames |-> <<1, 2, 3>>, loop |-> TRUE],
                       !.movement.type = "stalker",
                       !.movement.speed = s,
                       !.movement.stalkerHideTime = 500] : s \in StalkerSpeeds }
  /\ mvState = InitialAnimationState(mvLayer)
  /\ mvNow = 0
  /\ mvLastTime = 0
  /\ mvPlaying = TRUE
  /\ mvDts \in {{16}, {250}, {700}}

\* animate(currentTime), dt after the previous frame callback
StAnimate(dt) ==
  /\ mvPlaying
  /\ mvState' = Rebase(AnimateLayer(mvLayer, mvState, mvNow + dt, dt), dt)
  /\ UNCHANGED <<mvLayer, mvNow, mvLastTime, mvPlaying, mvDts>>
  /\ UNCHANGED <<tlVars, sqVars, lpVars, esVars, rfVars, hsVars>>

StalkNext == \E dt \in mvDts : StAnimate(dt)

\* while playing, every frame callback requests the next one
SpecStalk == StalkInit /\ [][StalkNext]_vars /\ WF_vars(StalkNext)

\* C24: under continued ticking with any fixed positive delta-time, a Stalker
\* actor that is in Retreating eventually becomes Hidden.
C24_RetreatEnds ==
  (mvLayer.movement.type = "stalker" /\ mvState.stalkerState = "retreating")
    ~> (mvState.stalkerState = "hidden")

----
(***************************************************************************)
(* MovementApp: ticks interleaved with edits of the layer's sequence.      *)
(***************************************************************************)

\* longest sequence of a run with sequence edits
MaxFrames == 3

\* the latest timestamp of a run with sequence edits, ms
MaxSeqEditTime == 800

\* the sequence without its entry at index (from 0): filter((_, i) => i !== index)
RemoveAt(frames, index) ==
  [i \in 1..(Len(frames) - 1) |-> IF i <= index THEN frames[i] ELSE frames[i + 1]]

\* splice(toIndex, 0, removed)
InsertAt(frames, index, f) ==
  [i \in 1..(Len(frames) + 1) |->
     IF i <= index THEN frames[i] ELSE IF i = index + 1 THEN f ELSE frames[i - 1]]

SeqEditInit ==
  /\ TimelineIdle
  /\ EaseIdle
  /\ FrameIdle
  /\ HistoryIdle
  /\ SequencerIdle
  /\ LoopIdle
  /\ mvLayer \in { [NewCharacterLayer EXCEPT
                       !.sprites = UploadedSprites(3),
                       !.sequence = [frames |-> <<1, 2, 3>>, loop |-> l],
                       !.movement.type = "patrol"] : l \in BOOLEAN }
  /\ mvState = InitialAnimationState(mvLayer)
  /\ mvNow = 0
  /\ mvLastTime = 0
  /\ mvPlaying = TRUE
  /\ mvDts \in {{100}, {250}}

\* handleFrameClick: a sprite is appended to the sequence
SeFrameClick(frameId) ==
  /\ Len(mvLayer.sequence.frames) < MaxFrames
  /\ mvLayer' = [mvLayer EXCEPT !.sequence.frames = Append(@, frameId)]
  /\ UNCHANGED <<mvState, mvNow, mvLastTime, mvPlaying, mvDts>>
  /\ UNCHANGED <<tlVars, sqVars, lpVars, esVars, rfVars, hsVars>>

\* handleRemoveFromSequence(index)
SeRemoveFromSequence(index) ==
  /\ index < Len(mvLayer.sequence.frames)
  /\ mvLayer' = [mvLayer EXCEPT !.sequence.frames = RemoveAt(@, index)]
  /\ UNCHANGED <<mvState, mvNow, mvLastTime, mvPlaying, mvDts>>
  /\ UNCHANGED <<tlVars, sqVars, lpVars, esVars, rfVars, hsVars>>

\* handleSequenceReorder(fromIndex, toIndex)
SeSequenceReorder(fromIndex, toIndex) ==
  /\ fromIndex < Len(mvLayer.sequence.frames)
  /\ toIndex < Len(mvLayer.sequence.frames)
  /\ fromIndex # toIndex
  /\ mvLayer' = [mvLayer EXCEPT
                   !.sequence.frames = InsertAt(RemoveAt(@, fromIndex), toIndex,
                                                @[fromIndex + 1])]
  /\ UNCHANGED <<mvState, mvNow, mvLastTime, mvPlaying, mvDts>>
  /\ UNCHANGED <<tlVars, sqVars, lpVars, esVars, rfVars, hsVars>>

\* animate(currentTime), dt after the previous frame callback
SeAnimate(dt) ==
  /\ mvNow + dt <= MaxSeqEditTime
  /\ mvNow' = mvNow + dt
  /\ mvState' = AnimateLayer(mvLayer, mvState, mvNow', mvNow' - mvLastTime)
  /\ mvLastTime' = mvNow'
  /\ UNCHANGED <<mvLayer, mvPlaying, mvDts>>
  /\ UNCHANGED <<tlVars, sqVars, lpVars, esVars, rfVars, hsVars>>

SeqEditNext ==
  \/ \E dt \in mvDts : SeAnimate(dt)
  \/ \E f \in 1..3 : SeFrameClick(f)
  \/ \E i \in 0..(MaxFrames - 1) : SeRemoveFromSequence(i)
  \/ \E i, j \in 0..(MaxFrames - 1) : SeSequenceReorder(i, j)

SpecSeqEdit == SeqEditInit /\ [][SeqEditNext]_vars

\* C25: in MovementApp, whenever a layer's sequence is non-empty its
\* currentFrameIndex is a valid index into sequence.frames, after any
\* interleaving of ticks with adding, removing and reordering frames.
C25_FrameIndexValid ==
  Len(mvLayer.sequence.frames) > 0
    => (0 <= mvState.currentFrameIndex
        /\ mvState.currentFrameIndex < Len(mvLayer.sequence.frames))

\* C27: in MovementApp a visible actor with a behavior other than None has its
\* behavior step applied on every tick whether or not its sprite sequence
\* contains any frames.
C27_BehaviorStepsWithoutFrames ==
  [][(mvLayer.visible /\ mvLayer.movement.type # "none")
       => \E dt \in mvDts :
            /\ mvNow' = mvNow + dt
            /\ \A field \in DOMAIN mvState \ {"currentFrameIndex", "frameStartTime"} :
                  mvState'[field] =
                    StepMovement(mvLayer, mvState, mvNow', mvNow' - mvLastTime)[field]
    ]_vars

----
(***************************************************************************)
(* GameAnimationsApp: ticks interleaved with preset applications, Clear    *)
(* Animation and drags.                                                    *)
(***************************************************************************)

\* the latest timestamp of a run with preset edits, ms
MaxPresetTime == 3000

\* the y a drag drops the layer at
DragYs == {500, 600}

PresetInit ==
  /\ TimelineIdle
  /\ EaseIdle
  /\ FrameIdle
  /\ HistoryIdle
  /\ MovementIdle
  /\ LoopIdle
  /\ sqApp = "game"
  /\ sqLayer \in { [GaNewCharacterLayer EXCEPT !.sprites = SpritesOf(3, 100),
                                                !.sequence = q] :
                      q \in ExplicitSequences }
  /\ sqState = GaInitialAnimationState(sqLayer)
  /\ sqNow = 0
  /\ sqLastTime = 0
  /\ sqDts = {250}

\* animate(currentTime), dt after the previous frame callback
GpAnimate(dt) ==
  /\ sqNow + dt <= MaxPresetTime
  /\ sqNow' = sqNow + dt
  /\ sqState' = GaAnimateLayer(sqLayer, sqState, sqNow', sqNow' - sqLastTime)
  /\ sqLastTime' = sqNow'
  /\ UNCHANGED <<sqApp, sqLayer, sqDts, tlVars, mvVars, lpVars, esVars, rfVars, hsVars>>

\* applyGameAnimation(preset)
GpApplyGameAnimation(p) ==
  /\ sqLayer' = GaApplyLayer(sqLayer, GAME_ANIMATION_PRESETS[p])
  /\ sqState' = GaApplyState(sqState)
  /\ UNCHANGED <<sqApp, sqNow, sqLastTime, sqDts>>
  /\ UNCHANGED <<tlVars, mvVars, lpVars, esVars, rfVars, hsVars>>

\* the Clear Animation button: gameAnimation: null
GpClearAnimation ==
  /\ sqLayer.gameAnimation # {}
  /\ sqLayer' = [sqLayer EXCEPT !.gameAnimation = {}]
  /\ UNCHANGED <<sqApp, sqState, sqNow, sqLastTime, sqDts>>
  /\ UNCHANGED <<tlVars, mvVars, lpVars, esVars, rfVars, hsVars>>

\* handleMouseMove of a drag that keeps x: the layer and its state take the
\* new position
GpDrag(newY) ==
  /\ sqLayer' = [sqLayer EXCEPT !.y = newY]
  /\ sqState' = [sqState EXCEPT !.currentX = sqLayer.x * Milli,
                                !.currentY = newY * Milli,
                                !.baseY = newY * Milli]
  /\ UNCHANGED <<sqApp, sqNow, sqLastTime, sqDts>>
  /\ UNCHANGED <<tlVars, mvVars, lpVars, esVars, rfVars, hsVars>>

PresetNext ==
  \/ \E dt \in sqDts : GpAnimate(dt)
  \/ \E p \in {"rex", "cat"} : GpApplyGameAnimation(p)
  \/ GpClearAnimation
  \/ \E y \in DragYs : GpDrag(y)

SpecPreset == PresetInit /\ [][PresetNext]_vars

\* C26: in GameAnimationsApp, in every reachable state in which isJumping is
\* false the actor is on its baseline (currentY = baseY), after any
\* interleaving of ticks, preset applications, preset clears and drags.
C26_OnBaselineUnlessJumping ==
  ~sqState.isJumping => sqState.currentY = sqState.baseY

\* C28: a single tick advances the active frame by at most one position,
\* however much time has passed since frameStartTime: the index of an explicit
\* sequence and the sequenceIndex of a preset stay or move to the next
\* position (wrapping, or clamping at the end of a sequence that does not loop).
C28_OneFramePerTick ==
  [][/\ SeqSequenced =>
          LET i == sqState.currentFrameIndex
          IN  sqState'.currentFrameIndex
                \in {i, IF i < SeqLastIndex THEN i + 1
                         ELSE IF sqLayer.sequence.loop THEN 0 ELSE SeqLastIndex}
     /\ PresetTick =>
          LET order == (CHOOSE g \in SeqPreset : TRUE).spriteSequence.frameOrder
          IN  sqState'.sequenceIndex
                \in {sqState.sequenceIndex, (sqState.sequenceIndex + 1) % Len(order)}
    ]_vars

\* C28 witness: frames of 100 ms and a first frame callback at 700 ms: the
\* elapsed time holds seven durations and the index has moved to 1
C28_Witness ==
  /\ SeqSequenced
  /\ Len(sqLayer.sequence.frames) = 3
  /\ \A s \in DOMAIN sqLayer.sprites : sqLayer.sprites[s].duration = 100
  /\ sqDts = {700}
  /\ sqNow = 700
  /\ sqState.currentFrameIndex = 1
  /\ sqState.frameStartTime = 700

\* C29: in the Animation Studio, while a non-empty sequence is playing the
\* playhead always satisfies 0 <= currentTime < total duration, across any
\* interleaving of frames with Play, Pause, Reset and block add/remove.
C29_PlayheadWithinTotal ==
  (lpApp = "studio" /\ lpPlaying /\ lpBlocks > 0)
    => (0 <= lpPlayhead /\ lpPlayhead < LoopTotalDuration(lpBlocks))

----
(***************************************************************************)
(* The layer editors with history: MovementApp and ProApp.  The layers are *)
(* held as a number: 0 at the start, and each edit shows layers that were  *)
(* not shown before.                                                       *)
(***************************************************************************)

HistoryApps == {"movement", "pro"}

\* the most edits of a run
MaxEdits == 5

\* saveToHistory with `layers` being snapshot: the entries after historyIndex
\* are dropped and the snapshot is pushed
SaveToHistory(history, index, snapshot) ==
  Append(SubSeq(history, 1, index + 1), snapshot)

HistoryInit ==
  /\ TimelineIdle
  /\ EaseIdle
  /\ FrameIdle
  /\ MovementIdle
  /\ SequencerIdle
  /\ LoopIdle
  /\ hsApp \in HistoryApps
  /\ hsLayers = 0
  \* ProApp saves the initial layers in an effect at mount
  /\ hsHistory = IF hsApp = "pro" THEN <<0>> ELSE << >>
  /\ hsIndex = IF hsApp = "pro" THEN 0 ELSE -1
  /\ hsEdits = 0
  /\ hsShown = 0
  /\ hsLast = "edit"

\* a recorded edit whose handler calls saveToHistory with the layers of the
\* render it was made in, before the edit shows: every recorded edit of
\* MovementApp (saveToHistory(); setLayers(...)), and in ProApp the
\* visibility toggle, delete, layer reorder and image upload
\* (setLayers(...); saveToHistory())
HsEditSavedBefore ==
  /\ hsEdits < MaxEdits
  /\ hsEdits' = hsEdits + 1
  /\ hsLayers' = hsEdits'
  /\ hsHistory' = SaveToHistory(hsHistory, hsIndex, hsLayers)
  /\ hsIndex' = hsIndex + 1
  /\ hsLast' = "edit"
  /\ UNCHANGED <<hsApp, hsShown>>
  /\ UNCHANGED <<tlVars, mvVars, sqVars, lpVars, esVars, rfVars>>

\* ProApp: a drag or an opacity change, recorded on mouse up, in a render
\* that already shows the edit
HsEditSavedAfter ==
  /\ hsApp = "pro"
  /\ hsEdits < MaxEdits
  /\ hsEdits' = hsEdits + 1
  /\ hsLayers' = hsEdits'
  /\ hsHistory' = SaveToHistory(hsHistory, hsIndex, hsLayers')
  /\ hsIndex' = hsIndex + 1
  /\ hsLast' = "edit"
  /\ UNCHANGED <<hsApp, hsShown>>
  /\ UNCHANGED <<tlVars, mvVars, sqVars, lpVars, esVars, rfVars>>

\* undo
HsUndo ==
  /\ hsIndex > 0
  /\ hsShown' = hsLayers
  /\ hsLayers' = hsHistory[hsIndex]
  /\ hsIndex' = hsIndex - 1
  /\ hsLast' = "undo"
  /\ UNCHANGED <<hsApp, hsHistory, hsEdits>>
  /\ UNCHANGED <<tlVars, mvVars, sqVars, lpVars, esVars, rfVars>>

\* redo
HsRedo ==
  /\ hsIndex < Len(hsHistory) - 1
  /\ hsLayers' = hsHistory[hsIndex + 2]
  /\ hsIndex' = hsIndex + 1
  /\ hsLast' = IF hsLast = "undo" THEN "undo-redo" ELSE "redo"
  /\ UNCHANGED <<hsApp, hsHistory, hsEdits, hsShown>>
  /\ UNCHANGED <<tlVars, mvVars, sqVars, lpVars, esVars, rfVars>>

HistoryNext ==
  \/ HsEditSavedBefore
  \/ HsEditSavedAfter
  \/ HsUndo
  \/ HsRedo

SpecHistory == HistoryInit /\ [][HistoryNext]_vars

\* C30: in the layer editors with history, an undo immediately followed by a
\* redo restores exactly the layers that were shown before the undo, for any
\* history built by a sequence of recorded edits.
C30_UndoRedoRestores ==
  hsLast = "undo-redo" => hsLayers = hsShown

====
